---- MODULE Spec2Model ----
(***************************************************************************)
(* A model of props-model's PropsModel class: the property store, the      *)
(* synchronous change-event cascade run through the EventEmitter, the      *)
(* 'prop-chain-completed' notification, property views and the access      *)
(* checks of the API facades.                                              *)
(*                                                                         *)
(* JavaScript runs one call at a time; a listener that calls set() again   *)
(* deepens the call stack.  The stack is explicit here: one frame per      *)
(* running _firePropChangeEvents and one per running view-to-base          *)
(* listener.  An exception unwinds the whole stack (the source has no      *)
(* try/catch/finally) and leaves every field as it was at the throw.       *)
(***************************************************************************)
EXTENDS Integers, Sequences, FiniteSets, TLC

\* Values a caller passes to set() are 0..MaxVal.
MaxVal == 2
\* A bulk set() names at most MaxKeys properties.
MaxKeys == 2

Values == 0 .. MaxVal
Modulus == MaxVal + 1
\* JavaScript's undefined (the old value of a property being defined, an
\* initialValue that was not passed): a value apart from every number.
Undefined == -1

VARIABLES
    program,        \* the client program: which definitions and handlers it uses
    props,          \* this._props, in insertion order
    firedProps,     \* this._firedProps, in insertion order
    listeners,      \* the emitter's listeners of `${propName}-changed`, per propName
    chainListeners, \* the emitter's listeners of 'prop-chain-completed'
    triggered,      \* definePropView's closure variable, per view name
    stack,          \* the call stack below the API call in progress
    call,           \* the API call in progress or just finished
    result,         \* "none": idle, "running", "ok", or the error thrown to the caller
    pre,            \* the store as it was when the call began
    log,            \* what the call emitted and wrote, in order
    failed,         \* some earlier call on this store threw
    given,          \* what the call returned and passed to the client's handlers
    accessors       \* the getter and setter functions installed on the target

vars == << program, props, firedProps, listeners, chainListeners, triggered,
           stack, call, result, pre, log, failed, accessors, given >>

----------------------------------------------------------------------------
(* Caller-supplied functions.  The store treats them as opaque; the client *)
(* programs below use these.                                               *)

\* function NOOP () {}  and the derived properties'  () => {}
NOOP == "NOOP"

\* A valueValidator throws to reject a value (README: isValidDimension).
ValidatorRejects(valueValidator, value) ==
    CASE valueValidator = "positive" -> value <= 0
      [] valueValidator = "atMostThree" -> value > 3
      [] valueValidator = "isValidDimension" -> value = Undefined \/ value < 0
      [] OTHER -> FALSE

\* function defaultDidChange (newValue, oldVaue) { return newValue !== oldVaue }
defaultDidChange(newValue, oldValue) == newValue # oldValue

\* A didChange of the caller's: only a change of parity counts
\* (n % 2 !== o % 2, and undefined % 2 is NaN, which differs from everything),
\* or only an increase counts (n > o, which is false against undefined).
DidChange(didChange, newValue, oldValue) ==
    CASE didChange = "parity" ->
            IF oldValue = Undefined \/ newValue = Undefined THEN TRUE
            ELSE (newValue % 2) # (oldValue % 2)
      [] didChange = "increase" ->
            IF oldValue = Undefined \/ newValue = Undefined THEN FALSE
            ELSE newValue > oldValue
      [] OTHER -> defaultDidChange(newValue, oldValue)

RECURSIVE SumSeq(_)
SumSeq(s) == IF s = << >> THEN 0 ELSE Head(s) + SumSeq(Tail(s))

\* calculateValue / calculateViewValue functions of the client programs.
Calc(calc, args) ==
    CASE calc = "sum"  -> SumSeq(args) % Modulus
      [] calc = "succ" -> (args[1] + 1) % Modulus
      [] calc = "odd"  -> args[1] % 2
      [] calc = "minus" -> (args[1] + Modulus - args[2]) % Modulus
      [] calc = "area" -> args[1] * args[2]
      [] calc = "perimeter" -> (2 * args[1]) + (2 * args[2])
      [] OTHER -> Undefined

\* reduceBaseValue functions of the client programs: (viewValue, baseValue),
\* bound to an object whose get reads the store ps.
\* "canonical" gives the least base above 1 whose parity is the view value;
\* "gated" feeds the view value back unless this.get('k') is 0; "pred" gives
\* the base whose "succ" is the view value; "bump" and
\* "shift" give a base that differs from the old base, or from the view value.
Reduce(reduce, viewValue, baseValue, ps) ==
    CASE reduce = "canonical" -> viewValue + 2
      [] reduce = "pred" -> (viewValue + Modulus - 1) % Modulus
      [] reduce = "bump" -> (baseValue + 1) % Modulus
      [] reduce = "shift" -> (viewValue + 1) % Modulus
      [] reduce = "gated" ->
            IF ps[CHOOSE i \in 1 .. Len(ps) : ps[i].propName = "k"].value = 0
            THEN baseValue ELSE viewValue
      [] OTHER -> baseValue

\* The properties the reduceBaseValue function reads through this.get.
Consults(reduce) == IF reduce = "gated" THEN << "k" >> ELSE << >>

----------------------------------------------------------------------------
(* The client programs: the define calls and handlers each may issue.      *)

Def(op, propName, dependsOn, calc, reduce, initialValue, valueValidator, didChange) ==
    [ op |-> op, propName |-> propName, dependsOn |-> dependsOn, calc |-> calc,
      reduce |-> reduce, initialValue |-> initialValue,
      valueValidator |-> valueValidator, didChange |-> didChange ]

Programs == { "derived", "chain", "view", "duplicate", "rectangle", "feedback", "facade",
              "initial", "inverse" }

\* Programs whose views overlap: two views of one base, and a view of a view.
OverlappingPrograms == { "siblings", "stacked" }

\* README main(): new MutableRectangle(10, 20), then rect.setLength(15)
InitialLength == 10
InitialWidth == 20
NewLength == 15

Catalog(p) ==
    CASE p = "derived" ->
           { Def("defineProp", "a", << >>, "", "", 0, "positive", "default"),
             Def("defineProp", "_b", << >>, "", "", 0, NOOP, "parity"),
             Def("defineDerivedProp", "d", << "a", "_b" >>, "sum", "", Undefined, NOOP, "default") }
      [] p = "chain" ->
           { Def("defineProp", "a", << >>, "", "", 0, NOOP, "default"),
             Def("defineDerivedProp", "d", << "a" >>, "succ", "", Undefined, NOOP, "default"),
             Def("defineDerivedProp", "e", << "a", "d" >>, "sum", "", 0, NOOP, "default") }
      [] p = "view" ->
           { Def("defineProp", "b", << >>, "", "", 1, "atMostThree", "default"),
             Def("definePropView", "v", << "b" >>, "odd", "canonical", Undefined, NOOP, "default"),
             Def("defineDerivedProp", "w", << "v" >>, "succ", "", Undefined, NOOP, "default") }
      [] p = "duplicate" ->
           { Def("defineProp", "y", << >>, "", "", 1, NOOP, "default"),
             Def("defineProp", "x", << >>, "", "", 0, NOOP, "default"),
             Def("defineDerivedProp", "x", << "y" >>, "succ", "", Undefined, NOOP, "default"),
             Def("definePropView", "x", << "y" >>, "odd", "canonical", Undefined, NOOP, "default"),
             Def("defineDerivedProp", "z", << "z" >>, "succ", "", 0, NOOP, "default"),
             Def("defineDerivedProp", "u", << "y", "z" >>, "sum", "", 0, NOOP, "default") }
      [] p = "feedback" ->
           { Def("defineProp", "k", << >>, "", "", 1, NOOP, "default"),
             Def("defineProp", "b", << >>, "", "", 0, NOOP, "default"),
             Def("definePropView", "v", << "b" >>, "odd", "gated", Undefined, NOOP, "default"),
             Def("defineDerivedProp", "c", << "b" >>, "succ", "", Undefined, NOOP, "default") }
      [] p = "facade" ->
           { Def("defineProp", "a", << >>, "", "", 0, NOOP, "default"),
             Def("defineProp", "_s", << >>, "", "", 0, NOOP, "default"),
             Def("defineDerivedProp", "d", << "a", "_s" >>, "sum", "", Undefined, NOOP, "default") }
      [] p = "inverse" ->
           { Def("defineProp", "b", << >>, "", "", 0, NOOP, "default"),
             Def("definePropView", "v", << "b" >>, "succ", "pred", Undefined, NOOP, "default") }
      [] p = "siblings" ->
           { Def("defineProp", "b", << >>, "", "", 0, NOOP, "default"),
             Def("definePropView", "v", << "b" >>, "succ", "bump", Undefined, NOOP, "default"),
             Def("definePropView", "w", << "b" >>, "odd", "shift", Undefined, NOOP, "default") }
      [] p = "stacked" ->
           { Def("defineProp", "b", << >>, "", "", 0, NOOP, "default"),
             Def("definePropView", "v", << "b" >>, "succ", "bump", Undefined, NOOP, "default"),
             Def("definePropView", "w", << "v" >>, "succ", "shift", Undefined, NOOP, "default"),
             Def("defineDerivedProp", "d", << "b", "w" >>, "sum", "", Undefined, NOOP, "default") }
      [] p = "initial" ->
           { Def("defineProp", "p", << >>, "", "", 0, "positive", "default"),
             Def("defineProp", "r", << >>, "", "", 1, NOOP, "increase"),
             Def("defineDerivedProp", "t", << "r", "p" >>, "minus", "", Undefined, NOOP, "default") }
      [] p = "rectangle" ->
           { Def("defineProp", "length", << >>, "", "", InitialLength, "isValidDimension", "default"),
             Def("defineProp", "width", << >>, "", "", InitialWidth, "isValidDimension", "default"),
             Def("defineDerivedProp", "area", << "length", "width" >>, "area", "",
                 Undefined, NOOP, "default"),
             Def("defineDerivedProp", "perimeter", << "length", "width" >>, "perimeter", "",
                 Undefined, NOOP, "default") }
      [] OTHER -> { }

\* The calls the program's client makes: single-property set, bulk set,
\* installAccessors and the setters it installs, the reading calls ("read")
\* createChangeHandler ("watch") and onAny.
Calls(p) ==
    CASE p = "duplicate" -> { "set" }
      [] p = "feedback" -> { "set" }
      [] p = "initial" -> { "set", "onAny" }
      [] p = "facade" -> { "set", "read", "watch", "installAccessors" }
      [] p = "rectangle" -> { "set", "installAccessors" }
      [] p = "derived" -> { "set", "setAll", "installAccessors" }
      [] OTHER -> { "set", "setAll" }

\* The values the program's client passes to set().
Inputs(p) ==
    CASE p = "rectangle" -> { InitialLength, NewLength }
      [] p = "facade" -> { 0, 1 }
      [] p = "initial" -> { 1, 2 }
      [] OTHER -> Values

\* The propertyAccess objects the program passes to installAccessors, in
\* Object.keys order, with the API it calls it on.
Installs(p) ==
    CASE p = "rectangle" ->
           { << "model", << << "length", "readwrite" >>, << "width", "readwrite" >>,
                            << "area", "readonly" >>, << "perimeter", "readonly" >> >> >> }
      [] p = "derived" ->
           { << "private", << << "d", "readwrite" >> >> >>,
             << "public", << << "a", "readwrite" >>, << "d", "ReadWrite" >> >> >>,
             << "model", << << "a", "readonly" >>, << "_b", "writeonly" >> >> >> }
      [] p = "facade" ->
           { << "public", << << "_s", "readonly" >> >> >>,
             << "public", << << "a", "none" >>, << "_s", "readwrite" >> >> >>,
             << "public", << << "_s", "none" >> >> >>,
             << "public", << << "a", "readonly" >>, << "_s", "readonly" >> >> >> }
      [] OTHER -> { }

\* Handlers the program may register with onPropChainComplete, and the API
\* it registers them through: "set" sets one property when a chain
\* completes, "keep" keeps the list it is called with.
ChainHandlers(p) ==
    CASE p \in { "chain", "siblings" } ->
           { [ kind |-> "set", api |-> "model", propName |-> IF p = "chain" THEN "a" ELSE "v",
               value |-> 1 ] }
      [] p = "facade" ->
           { [ kind |-> "keep", api |-> api, propName |-> "", value |-> Undefined ] :
               api \in { "public", "custom" } }
      [] OTHER -> { }

\* The lists of property names the program passes to createUtilizer and
\* getAll.
NameLists(p) ==
    CASE p = "facade" -> { << "a" >>, << "_s" >>, << "d" >>, << "a", "_s" >>, << "d", "a" >> }
      [] OTHER -> { }

\* The createChangeHandler calls of the program: the API and respondsTo.
Watches(p) ==
    CASE p = "facade" ->
           { << "public", << "d" >> >>, << "public", << "a", "_s" >> >>,
             << "custom", << "_s" >> >>, << "custom", << "a", "d" >> >> }
      [] OTHER -> { }

\* The onAny calls of the program: propNames; the handler reads the
\* property it is called for.
Listens(p) ==
    CASE p = "initial" -> { << "p", "t" >> }
      [] OTHER -> { }

\* The property names the program passes to set().
Names(p) == { def.propName : def \in Catalog(p) }

AllNames == UNION { Names(p) : p \in Programs \cup OverlappingPrograms }

----------------------------------------------------------------------------
(* this._props                                                             *)

Has(ps, propName) == \E i \in 1 .. Len(ps) : ps[i].propName = propName

Idx(ps, propName) == CHOOSE i \in 1 .. Len(ps) : ps[i].propName = propName

Prop(ps, propName) == ps[Idx(ps, propName)]

ValueOf(ps, propName) == Prop(ps, propName).value

\* this._props[propName].value = value
Assign(ps, propName, value) == [ ps EXCEPT ![Idx(ps, propName)].value = value ]

\* propNames.map((propName) => this._props[propName].value)
ValuesOf(ps, propNames) == [ k \in 1 .. Len(propNames) |-> ValueOf(ps, propNames[k]) ]

\* Set.add with a slip: an array push, which keeps duplicates.
SetAddPush(s, x) == Append(s, x)

\* Set.add on an insertion-ordered Set
SetAdd(s, x) == IF \E i \in 1 .. Len(s) : s[i] = x THEN s ELSE Append(s, x)

Range(s) == { s[i] : i \in 1 .. Len(s) }

----------------------------------------------------------------------------
(* Access checks of the APIs: the model itself, getStandardPrivateApi and  *)
(* getStandardPublicApi.                                                   *)

Apis == { "model", "private", "public" }

\* String.prototype.startsWith
StartsWith(s, prefix) == Len(s) >= Len(prefix) /\ SubSeq(s, 1, Len(prefix)) = prefix

\* propNameIsPublic with a slip: every name is taken to be public.
propNameIsPublicAlways(propName) == TRUE

\* propNameIsPublic: !propName.startsWith('_')
propNameIsPublic(propName) == ~StartsWith(propName, "_")

\* StandardWriteRejects with a slip: the derived flag is not looked at.
StandardWriteAllowsDerived(ps, propName) == FALSE

\* createStandardWriteValidator throws for a derived property.
StandardWriteRejects(ps, propName) == Prop(ps, propName).derived

\* The writeValidator of the API throws.
WriteRejects(api, ps, propName) ==
    CASE api = "public"  -> ~propNameIsPublic(propName) \/ StandardWriteRejects(ps, propName)
      [] api = "private" -> StandardWriteRejects(ps, propName)
      [] OTHER -> FALSE

\* The readChecker the client program passes to createApi: what it returns
\* for a name, true, false or an Error object.
CustomChecker(propName) ==
    CASE propName = "d" -> "Error"
      [] StartsWith(propName, "_") -> "false"
      [] OTHER -> "true"

\* The APIs that read: the three above and createApi(CustomChecker) with the
\* default validators.
ReadApis == Apis \cup { "custom" }

\* The readChecker of the API, called with a name.
readChecker(api, propName) ==
    CASE api = "public" -> IF propNameIsPublic(propName) THEN "true" ELSE "false"
      [] api = "custom" -> CustomChecker(propName)
      [] OTHER -> "true"

\* JavaScript's truthiness of what a checker returned: an object is truthy.
Truthy(checkResult) == checkResult # "false"

\* propNames.filter(readChecker)
Filter(api, propNames) == SelectSeq(propNames, LAMBDA n : Truthy(readChecker(api, n)))

\* propertyCheckerToValidator(checker)(propName): the error thrown, or "none".
propertyCheckerToValidator(checkResult) ==
    IF checkResult = "Error" THEN "CheckerError"
    ELSE IF ~Truthy(checkResult) THEN "NotAllowed"
    ELSE "none"

\* The readValidator of the API, called with a name: the error thrown, or
\* "none".
readValidator(api, propName) ==
    CASE api = "public" -> IF propNameIsPublic(propName) THEN "none" ELSE "AccessDenied"
      [] api = "custom" -> propertyCheckerToValidator(CustomChecker(propName))
      [] OTHER -> "none"

\* The readValidator of the API throws.
ReadRejects(api, propName) == readValidator(api, propName) # "none"

----------------------------------------------------------------------------
(* Frames of the call stack, the top last.                                 *)

\* A running _firePropChangeEvents(events): pc "emit" is about to add
\* events[i] to _firedProps and emit it, "listeners" is about to call the
\* j-th listener of events[i], "complete" is about to emit
\* 'prop-chain-completed', "chain" is about to call its j-th listener
\* with the array `emitted`.
FireFrame(events, firstInChain) ==
    [ op |-> "fire", pc |-> IF events = << >> THEN "complete" ELSE "emit",
      events |-> events, i |-> 1, j |-> 1, firstInChain |-> firstInChain, view |-> "",
      emitted |-> << >> ]

\* A running view-to-base listener of definePropView, inside its set() call.
ReduceFrame(viewName) ==
    [ op |-> "reduce", pc |-> "set", events |-> << >>, i |-> 0, j |-> 0,
      firstInChain |-> FALSE, view |-> viewName, emitted |-> << >> ]

Top == stack[Len(stack)]

Pop(stk) == SubSeq(stk, 1, Len(stk) - 1)

SetTop(stk, frame) == [ stk EXCEPT ![Len(stk)] = frame ]

Event(propName, newValue, oldValue) ==
    [ propName |-> propName, newValue |-> newValue, oldValue |-> oldValue ]

\* Entries of the log.
Changed(e, depth) ==
    [ type |-> "changed", propName |-> e.propName, newValue |-> e.newValue,
      oldValue |-> e.oldValue, names |-> << >>, depth |-> depth ]

Completed(names, depth) ==
    [ type |-> "completed", propName |-> "", newValue |-> Undefined,
      oldValue |-> Undefined, names |-> names, depth |-> depth ]

Wrote(propName, value, depth) ==
    [ type |-> "wrote", propName |-> propName, newValue |-> value,
      oldValue |-> Undefined, names |-> << >>, depth |-> depth ]

NoCall == [ op |-> "none", propName |-> "", value |-> Undefined, args |-> << >>,
            via |-> "" ]

Snapshot == [ props |-> props, firedProps |-> firedProps, triggered |-> triggered ]

NoSnapshot == [ props |-> << >>, firedProps |-> << >>,
                triggered |-> [ n \in AllNames |-> FALSE ] ]

Idle == result = "none"

\* An exception leaves the call: nothing is undone on the way out.
Throw(error) ==
    /\ stack' = << >>
    /\ result' = error
    /\ failed' = TRUE

\* The call goes on, or returns to its caller when the stack is empty.
Continue(stk) ==
    /\ stack' = stk
    /\ result' = IF stk = << >> THEN "ok" ELSE "running"
    /\ failed' = failed

\* EnterFire with a slip: firstInChain is taken to be true in every call.
EnterFireAlwaysFirst(stk, events) == Append(stk, FireFrame(events, TRUE))

\* _firePropChangeEvents(events) is entered above stk.  With no event and a
\* chain in progress it does nothing and returns at once.
EnterFire(stk, events) ==
    IF events = << >> /\ firedProps # << >>
    THEN stk
    ELSE Append(stk, FireFrame(events, firedProps = << >>))

----------------------------------------------------------------------------
(* _set                                                                    *)

\* What a valueValidator throws.
ValidatorError(valueValidator) == "Invalid:" \o valueValidator

\* SetError with a slip: the property's valueValidator is not called.
SetErrorNoValidator(api, ps, propName, value) ==
    IF ~Has(ps, propName) THEN "NoSuchProperty"
    ELSE IF WriteRejects(api, ps, propName) THEN "AccessDenied"
    ELSE "none"

\* _set(propValidator, propName, value), the checks before the assignment:
\* the error thrown, or "none".
SetError(api, ps, propName, value) ==
    IF ~Has(ps, propName) THEN "NoSuchProperty"
    ELSE IF WriteRejects(api, ps, propName) THEN "AccessDenied"
    ELSE IF ValidatorRejects(Prop(ps, propName).valueValidator, value)
         THEN ValidatorError(Prop(ps, propName).valueValidator)
    ELSE "none"

\* SetEvents with a slip: the event is fired whatever didChange says.
SetEventsAlways(ps, propName, value) ==
    << Event(propName, value, ValueOf(ps, propName)) >>

\* The events _set fires for one property: one if didChange says so.
SetEvents(ps, propName, value) ==
    IF DidChange(Prop(ps, propName).didChange, value, ValueOf(ps, propName))
    THEN << Event(propName, value, ValueOf(ps, propName)) >>
    ELSE << >>

\* SingleSet with a slip: the value is assigned only if didChange says so.
SingleSetOnlyIfChanged(api, propName, value, stk) ==
    LET error == SetError(api, props, propName, value)
        events == SetEvents(props, propName, value)
    IN  IF error # "none"
        THEN /\ Throw(error)
             /\ UNCHANGED << props, log >>
        ELSE /\ props' = IF events = << >> THEN props ELSE Assign(props, propName, value)
             /\ log' = Append(log, Wrote(propName, value, Len(stk)))
             /\ Continue(IF events = << >> THEN stk ELSE EnterFire(stk, events))

\* _set(propValidator, propName, value) called with stk below it.  It fires
\* only if didChange says so.
SingleSet(api, propName, value, stk) ==
    LET error == SetError(api, props, propName, value)
        events == SetEvents(props, propName, value)
    IN  IF error # "none"
        THEN /\ Throw(error)
             /\ UNCHANGED << props, log >>
        ELSE /\ props' = Assign(props, propName, value)
             /\ log' = Append(log, Wrote(propName, value, Len(stk)))
             /\ Continue(IF events = << >> THEN stk ELSE EnterFire(stk, events))

\* Mappings a caller passes to set(): Object.entries order, distinct keys.
Mappings(names) ==
    { m \in UNION { [ 1 .. n -> names \X Values ] : n \in 0 .. MaxKeys } :
        \A i, k \in 1 .. Len(m) : i # k => m[i][1] # m[k][1] }

\* BulkError with a slip: only the first entry's value is validated.
BulkErrorFirstValueOnly(api, ps, args) ==
    IF \E i \in 1 .. Len(args) : ~Has(ps, args[i][1]) THEN "NoSuchProperty"
    ELSE IF \E i \in 1 .. Len(args) : WriteRejects(api, ps, args[i][1]) THEN "AccessDenied"
    ELSE IF args # << >> /\ ValidatorRejects(Prop(ps, args[1][1]).valueValidator, args[1][2])
         THEN ValidatorError(Prop(ps, args[1][1]).valueValidator)
    ELSE "none"

\* _set(propValidator, args[0]), the three forEach passes before the
\* assignments: the error thrown, or "none".
BulkError(api, ps, args) ==
    LET unknown  == { i \in 1 .. Len(args) : ~Has(ps, args[i][1]) }
        denied   == { i \in 1 .. Len(args) : WriteRejects(api, ps, args[i][1]) }
        rejected == { i \in 1 .. Len(args) :
                        ValidatorRejects(Prop(ps, args[i][1]).valueValidator, args[i][2]) }
        First(S) == CHOOSE i \in S : \A k \in S : i <= k
    IN  IF unknown # { } THEN "NoSuchProperty"
        ELSE IF denied # { } THEN "AccessDenied"
        ELSE IF rejected # { }
             THEN ValidatorError(Prop(ps, args[First(rejected)][1]).valueValidator)
        ELSE "none"

\* BulkAssign with a slip: only the first entry is assigned.
BulkAssignHeadOnly(ps, args) ==
    IF args = << >> THEN ps ELSE Assign(ps, args[1][1], args[1][2])

\* The assignments of the bulk _set, in Object.entries order.
RECURSIVE BulkAssign(_, _)
BulkAssign(ps, args) ==
    IF args = << >> THEN ps
    ELSE BulkAssign(Assign(ps, Head(args)[1], Head(args)[2]), Tail(args))

\* changeEvents of the bulk _set: the entries whose didChange says so, in order.
RECURSIVE BulkEvents(_, _)
BulkEvents(ps, args) ==
    IF args = << >> THEN << >>
    ELSE SetEvents(ps, Head(args)[1], Head(args)[2]) \o BulkEvents(ps, Tail(args))

RECURSIVE BulkWrote(_)
BulkWrote(args) ==
    IF args = << >> THEN << >>
    ELSE << Wrote(Head(args)[1], Head(args)[2], 0) >> \o BulkWrote(Tail(args))

----------------------------------------------------------------------------
(* The API calls, made while no call is in progress.                       *)

Begin(op, propName, value, args) ==
    /\ Idle
    /\ call' = [ op |-> op, propName |-> propName, value |-> value, args |-> args,
                 via |-> "" ]
    /\ pre' = Snapshot

\* set(propName, value) through an API
Set(api, propName, value) ==
    /\ Begin("set", propName, value, << >>)
    /\ SingleSet(api, propName, value, << >>)
    /\ UNCHANGED << program, accessors, given, firedProps, listeners, chainListeners, triggered >>

\* SetAll with a slip: _firePropChangeEvents is called only if an entry
\* counts as a change.
SetAllOnlyIfChanged(api, args) ==
    /\ Begin("setAll", "", Undefined, args)
    /\ LET error == BulkError(api, props, args)
       IN  IF error # "none"
           THEN /\ Throw(error)
                /\ UNCHANGED << props, log >>
           ELSE /\ props' = BulkAssign(props, args)
                /\ log' = log \o BulkWrote(args)
                /\ Continue(IF BulkEvents(props, args) = << >> THEN << >>
                            ELSE EnterFire(<< >>, BulkEvents(props, args)))
    /\ UNCHANGED << program, accessors, given, firedProps, listeners, chainListeners, triggered >>

\* set(propValues) through an API
SetAll(api, args) ==
    /\ Begin("setAll", "", Undefined, args)
    /\ LET error == BulkError(api, props, args)
       IN  IF error # "none"
           THEN /\ Throw(error)
                /\ UNCHANGED << props, log >>
           ELSE /\ props' = BulkAssign(props, args)
                /\ log' = log \o BulkWrote(args)
                /\ Continue(EnterFire(<< >>, BulkEvents(props, args)))
    /\ UNCHANGED << program, accessors, given, firedProps, listeners, chainListeners, triggered >>

NewProp(def, value, derived) ==
    [ propName |-> def.propName, value |-> value, derived |-> derived,
      valueValidator |-> def.valueValidator, didChange |-> def.didChange ]

\* FireInitial with a slip: the initial change event is fired whatever
\* didChange says.
FireInitialAlways(def, value) ==
    Continue(EnterFire(<< >>, << Event(def.propName, value, Undefined) >>))

\* The define calls end alike: fire the initial change event if didChange
\* says the initial value is a change from undefined.
FireInitial(def, value) ==
    Continue(IF DidChange(def.didChange, value, Undefined)
             THEN EnterFire(<< >>, << Event(def.propName, value, Undefined) >>)
             ELSE << >>)

\* UtilizerError with a slip: only the first name is looked up.
UtilizerErrorFirstOnly(ps, propNames) ==
    IF propNames # << >> /\ ~Has(ps, propNames[1])
    THEN "UnknownProperty" ELSE "none"

\* _createUtilizer throws for a property that is not defined.
UtilizerError(ps, propNames) ==
    IF \E k \in 1 .. Len(propNames) : ~Has(ps, propNames[k])
    THEN "UnknownProperty" ELSE "none"

\* The function _createUtilizer returns, called: reading .value of a
\* property that is not defined is a TypeError.
UtilizeError(ps, propNames) ==
    IF \E k \in 1 .. Len(propNames) : ~Has(ps, propNames[k])
    THEN "TypeError" ELSE "none"

\* OnAny with a slip: the handler replaces the listeners already registered.
RECURSIVE OnAnyReplaces(_, _, _)
OnAnyReplaces(ls, propNames, handler) ==
    IF propNames = << >> THEN ls
    ELSE OnAnyReplaces([ ls EXCEPT ![Head(propNames)] = << handler >> ],
                       Tail(propNames), handler)

\* _onAny(propValidator, propNames, handler): one emitter.on per name.
RECURSIVE OnAny(_, _, _)
OnAny(ls, propNames, handler) ==
    IF propNames = << >> THEN ls
    ELSE OnAny([ ls EXCEPT ![Head(propNames)] = Append(@, handler) ],
               Tail(propNames), handler)

Handler(kind, def) ==
    [ kind |-> kind, api |-> "model", propName |-> def.propName,
      dependsOn |-> def.dependsOn, calc |-> def.calc, reduce |-> def.reduce ]

\* defineProp with a slip: a defined name is defined over.
definePropOverwrites(def) ==
    /\ def.op = "defineProp"
    /\ Begin("defineProp", def.propName, def.initialValue, << >>)
    /\ props' = IF Has(props, def.propName)
                THEN [ props EXCEPT ![Idx(props, def.propName)] =
                                        NewProp(def, def.initialValue, FALSE) ]
                ELSE Append(props, NewProp(def, def.initialValue, FALSE))
    /\ FireInitial(def, def.initialValue)
    /\ UNCHANGED << program, accessors, given, firedProps, listeners, chainListeners, triggered, log >>

defineProp(def) ==
    /\ def.op = "defineProp"
    /\ Begin("defineProp", def.propName, def.initialValue, << >>)
    /\ IF Has(props, def.propName)
       THEN /\ Throw("AlreadyDefined")
            /\ UNCHANGED props
       ELSE /\ props' = Append(props, NewProp(def, def.initialValue, FALSE))
            /\ FireInitial(def, def.initialValue)
    /\ UNCHANGED << program, accessors, given, firedProps, listeners, chainListeners, triggered, log >>

\* defineDerivedProp with a slip: a falsy initial value counts as none given
\* (initialValue || calculateValue()).
defineDerivedPropUnlessFalsy(def) ==
    /\ def.op = "defineDerivedProp"
    /\ Begin("defineDerivedProp", def.propName, def.initialValue, << >>)
    /\ LET error == IF Has(props, def.propName) THEN "AlreadyDefined"
                    ELSE IF UtilizerError(props, def.dependsOn) # "none"
                    THEN UtilizerError(props, def.dependsOn)
                    ELSE "none"
           value == IF def.initialValue \in { Undefined, 0 }
                    THEN Calc(def.calc, ValuesOf(props, def.dependsOn))
                    ELSE def.initialValue
       IN  IF error # "none"
           THEN /\ Throw(error)
                /\ UNCHANGED << props, listeners >>
           ELSE /\ props' = Append(props, NewProp(def, value, TRUE))
                /\ listeners' = OnAny(listeners, def.dependsOn, Handler("derived", def))
                /\ FireInitial(def, value)
    /\ UNCHANGED << program, accessors, given, firedProps, chainListeners, triggered, log >>

defineDerivedProp(def) ==
    /\ def.op = "defineDerivedProp"
    /\ Begin("defineDerivedProp", def.propName, def.initialValue, << >>)
    /\ LET error == IF Has(props, def.propName) THEN "AlreadyDefined"
                    ELSE IF UtilizerError(props, def.dependsOn) # "none"
                    THEN UtilizerError(props, def.dependsOn)
                    ELSE IF def.initialValue = Undefined
                    THEN UtilizeError(props, def.dependsOn)
                    ELSE "none"
           value == IF def.initialValue = Undefined
                    THEN Calc(def.calc, ValuesOf(props, def.dependsOn))
                    ELSE def.initialValue
       IN  IF error # "none"
           THEN /\ Throw(error)
                /\ UNCHANGED << props, listeners >>
           ELSE /\ props' = Append(props, NewProp(def, value, TRUE))
                /\ listeners' = OnAny(listeners, def.dependsOn, Handler("derived", def))
                /\ FireInitial(def, value)
    /\ UNCHANGED << program, accessors, given, firedProps, chainListeners, triggered, log >>

\* definePropView with a slip: the view-to-base listener is also registered
\* on the properties reduceBaseValue reads.
definePropViewListensToConsulted(def) ==
    /\ def.op = "definePropView"
    /\ Begin("definePropView", def.propName, Undefined, << >>)
    /\ LET error == IF Has(props, def.propName) THEN "AlreadyDefined"
                    ELSE IF UtilizerError(props, def.dependsOn) # "none"
                    THEN UtilizerError(props, def.dependsOn)
                    ELSE UtilizeError(props, def.dependsOn)
           value == Calc(def.calc, ValuesOf(props, def.dependsOn))
       IN  IF error # "none"
           THEN /\ Throw(error)
                /\ UNCHANGED << props, listeners, triggered >>
           ELSE /\ props' = Append(props, NewProp(def, value, TRUE))
                /\ triggered' = [ triggered EXCEPT ![def.propName] = FALSE ]
                /\ listeners' = OnAny(OnAny(listeners, def.dependsOn, Handler("calculate", def)),
                                      << def.propName >> \o Consults(def.reduce),
                                      Handler("reduce", def))
                /\ FireInitial(def, value)
    /\ UNCHANGED << program, accessors, given, firedProps, chainListeners, log >>

definePropView(def) ==
    /\ def.op = "definePropView"
    /\ Begin("definePropView", def.propName, Undefined, << >>)
    /\ LET error == IF Has(props, def.propName) THEN "AlreadyDefined"
                    ELSE IF UtilizerError(props, def.dependsOn) # "none"
                    THEN UtilizerError(props, def.dependsOn)
                    ELSE UtilizeError(props, def.dependsOn)
           value == Calc(def.calc, ValuesOf(props, def.dependsOn))
       IN  IF error # "none"
           THEN /\ Throw(error)
                /\ UNCHANGED << props, listeners, triggered >>
           ELSE /\ props' = Append(props, NewProp(def, value, TRUE))
                /\ triggered' = [ triggered EXCEPT ![def.propName] = FALSE ]
                /\ listeners' = OnAny(OnAny(listeners, def.dependsOn, Handler("calculate", def)),
                                      << def.propName >>, Handler("reduce", def))
                /\ FireInitial(def, value)
    /\ UNCHANGED << program, accessors, given, firedProps, chainListeners, log >>

\* onPropChainComplete(handler); the program registers each handler once.
onPropChainComplete(handler) ==
    /\ handler \notin Range(chainListeners)
    /\ Begin("onPropChainComplete", "", Undefined, << >>)
    /\ chainListeners' = Append(chainListeners, handler)
    /\ Continue(<< >>)
    /\ UNCHANGED << program, accessors, given, props, firedProps, listeners, triggered, log >>

\* String.prototype.toUpperCase and toLowerCase, on the letters a to z.
LowerLetters == "abcdefghijklmnopqrstuvwxyz"
UpperLetters == "ABCDEFGHIJKLMNOPQRSTUVWXYZ"

CharAt(str, i) == SubSeq(str, i, i)

Map(from, to, c) ==
    IF \E i \in 1 .. Len(from) : CharAt(from, i) = c
    THEN CharAt(to, CHOOSE i \in 1 .. Len(from) : CharAt(from, i) = c)
    ELSE c

RECURSIVE toLowerCase(_)
toLowerCase(str) ==
    IF Len(str) = 0 THEN ""
    ELSE Map(UpperLetters, LowerLetters, CharAt(str, 1))
           \o toLowerCase(SubSeq(str, 2, Len(str)))

\* createAccessorNames, for one prefix:
\*   `${prefix}${propName.replace(/^./, (c) => c.toUpperCase())}`
createAccessorNames(propName, prefix) ==
    IF Len(propName) = 0 THEN prefix
    ELSE prefix \o Map(LowerLetters, UpperLetters, CharAt(propName, 1))
                \o SubSeq(propName, 2, Len(propName))

\* _installAccessors, first loop, one key: the error thrown, or "none".
AccessError(api, ps, propName, access) ==
    IF ~Has(ps, propName) THEN "NonExistent"
    ELSE CASE toLowerCase(access) = "readonly" ->
                IF ReadRejects(api, propName) THEN "AccessDenied" ELSE "none"
           [] toLowerCase(access) = "readwrite" ->
                IF ReadRejects(api, propName) \/ WriteRejects(api, ps, propName)
                THEN "AccessDenied" ELSE "none"
           [] toLowerCase(access) = "none" -> "none"
           [] OTHER -> "UnknownAccess"

\* _installAccessors, first loop: the first error in Object.keys order.
RECURSIVE InstallError(_, _, _)
InstallError(api, ps, propertyAccess) ==
    IF propertyAccess = << >> THEN "none"
    ELSE LET error == AccessError(api, ps, Head(propertyAccess)[1], Head(propertyAccess)[2])
         IN  IF error # "none" THEN error
             ELSE InstallError(api, ps, Tail(propertyAccess))

Accessor(kind, propName) ==
    [ name |-> createAccessorNames(propName, kind), kind |-> kind, propName |-> propName ]

\* target[funcName] = ... : a function of the same name is replaced.
Attach(target, accessor) ==
    { f \in target : f.name # accessor.name } \cup { accessor }

\* _installAccessors, second loop.
RECURSIVE InstallAll(_, _)
InstallAll(target, propertyAccess) ==
    IF propertyAccess = << >> THEN target
    ELSE LET propName == Head(propertyAccess)[1]
             access == toLowerCase(Head(propertyAccess)[2])
             next == CASE access = "readonly" -> Attach(target, Accessor("get", propName))
                       [] access = "readwrite" ->
                            Attach(Attach(target, Accessor("get", propName)),
                                   Accessor("set", propName))
                       [] OTHER -> target
         IN  InstallAll(next, Tail(propertyAccess))

\* installAccessors with a slip: one loop, which checks a key and installs
\* its accessors before it goes on to the next key.
installAccessorsOneLoop(api, propertyAccess) ==
    /\ Begin("installAccessors", "", Undefined, propertyAccess)
    /\ LET error == InstallError(api, props, propertyAccess)
           errorAt(i) == AccessError(api, props, propertyAccess[i][1],
                                     propertyAccess[i][2]) # "none"
       IN  IF error # "none"
           THEN /\ Throw(error)
                /\ accessors' =
                      InstallAll(accessors,
                                 SubSeq(propertyAccess, 1,
                                        (CHOOSE i \in 1 .. Len(propertyAccess) :
                                            /\ errorAt(i)
                                            /\ \A j \in 1 .. i - 1 : ~errorAt(j)) - 1))
           ELSE /\ accessors' = InstallAll(accessors, propertyAccess)
                /\ Continue(<< >>)
    /\ UNCHANGED << program, given, props, firedProps, listeners, chainListeners,
                    triggered, log >>

\* installAccessors(target, propertyAccess) through an API
installAccessors(api, propertyAccess) ==
    /\ Begin("installAccessors", "", Undefined, propertyAccess)
    /\ LET error == InstallError(api, props, propertyAccess)
       IN  IF error # "none"
           THEN /\ Throw(error)
                /\ UNCHANGED accessors
           ELSE /\ accessors' = InstallAll(accessors, propertyAccess)
                /\ Continue(<< >>)
    /\ UNCHANGED << program, given, props, firedProps, listeners, chainListeners,
                    triggered, log >>

\* An installed setter: (value) => { this._set(() => {}, propName, value) }
Setter(accessor, value) ==
    /\ accessor.kind = "set"
    /\ Idle
    /\ call' = [ op |-> "set", propName |-> accessor.propName, value |-> value,
                 args |-> << >>, via |-> accessor.name ]
    /\ pre' = Snapshot
    /\ SingleSet("model", accessor.propName, value, << >>)
    /\ UNCHANGED << program, accessors, given, firedProps, listeners, chainListeners, triggered >>

----------------------------------------------------------------------------
(* The reading calls of an API.                                            *)

\* Object.keys(this._props)
PropNames(ps) == [ i \in 1 .. Len(ps) |-> ps[i].propName ]

\* What a call returned, or a handler registered through an API was called
\* with: the names and the values it holds.
Gave(type, api, names, values) ==
    [ type |-> type, api |-> api, names |-> names, values |-> values ]

\* _get: the error thrown, or "none".
GetError(api, ps, propName) ==
    IF readValidator(api, propName) # "none" THEN readValidator(api, propName)
    ELSE IF ~Has(ps, propName) THEN "NoSuchProperty"
    ELSE "none"

\* get(propName) through an API
get(api, propName) ==
    /\ Begin("get", propName, Undefined, << >>)
    /\ LET error == GetError(api, props, propName)
       IN  IF error # "none"
           THEN /\ Throw(error)
                /\ UNCHANGED given
           ELSE /\ given' = << Gave("get", api, << propName >>, << ValueOf(props, propName) >>) >>
                /\ Continue(<< >>)
    /\ UNCHANGED << program, accessors, props, firedProps, listeners, chainListeners,
                    triggered, log >>

\* _createUtilizer: propNames.forEach(propValidator), then the lookup of
\* each name: the error thrown, or "none".
CreateUtilizerError(api, ps, propNames) ==
    LET denied == { k \in 1 .. Len(propNames) : readValidator(api, propNames[k]) # "none" }
    IN  IF denied # { }
        THEN readValidator(api, propNames[CHOOSE k \in denied : \A j \in denied : k <= j])
        ELSE UtilizerError(ps, propNames)

\* createUtilizer(propNames, handler) through an API
createUtilizer(api, propNames) ==
    /\ Begin("createUtilizer", "", Undefined, propNames)
    /\ LET error == CreateUtilizerError(api, props, propNames)
       IN  IF error # "none"
           THEN /\ Throw(error)
                /\ UNCHANGED given
           ELSE /\ given' = << Gave("createUtilizer", api, propNames, << >>) >>
                /\ Continue(<< >>)
    /\ UNCHANGED << program, accessors, props, firedProps, listeners, chainListeners,
                    triggered, log >>

\* The callback createChangeHandler registers: the utilizer of respondsTo.
Callback(api, respondsTo) ==
    [ kind |-> "callback", api |-> api, propName |-> "", dependsOn |-> respondsTo,
      calc |-> "", reduce |-> "" ]

\* createChangeHandler(respondsTo, handler) through an API; the program
\* registers each handler once.
createChangeHandler(api, respondsTo) ==
    /\ \A k \in 1 .. Len(respondsTo) :
          Callback(api, respondsTo) \notin Range(listeners[respondsTo[k]])
    /\ Begin("createChangeHandler", "", Undefined, respondsTo)
    /\ LET error == CreateUtilizerError(api, props, respondsTo)
       IN  IF error # "none"
           THEN /\ Throw(error)
                /\ UNCHANGED << given, listeners >>
           ELSE /\ listeners' = OnAny(listeners, respondsTo, Callback(api, respondsTo))
                /\ given' = << Gave("createChangeHandler", api, respondsTo, << >>) >>
                /\ Continue(<< >>)
    /\ UNCHANGED << program, accessors, props, firedProps, chainListeners, triggered, log >>

\* onAny(propNames, handler) on the model, with the program's handler, which
\* keeps what it is called with and reads the property; the program
\* registers each handler once.  No name is looked up.
onAny(propNames) ==
    LET handler == [ kind |-> "reader", api |-> "model", propName |-> "",
                     dependsOn |-> propNames, calc |-> "", reduce |-> "" ]
    IN  /\ \A k \in 1 .. Len(propNames) : handler \notin Range(listeners[propNames[k]])
        /\ Begin("onAny", "", Undefined, propNames)
        /\ listeners' = OnAny(listeners, propNames, handler)
        /\ Continue(<< >>)
        /\ UNCHANGED << program, accessors, given, props, firedProps, chainListeners,
                        triggered, log >>

\* JSON.stringify of a value of the store: the decimal digits of a number;
\* undefined is not serialised, and JSON.parse is then handed undefined.
Digits == "0123456789"

RECURSIVE stringify(_)
stringify(value) ==
    IF value = Undefined THEN "undefined"
    ELSE IF value < 10 THEN CharAt(Digits, value + 1)
    ELSE stringify(value \div 10) \o CharAt(Digits, (value % 10) + 1)

\* JSON.parse throws a SyntaxError for a text that is not decimal digits.
IsNumberText(text) ==
    /\ Len(text) > 0
    /\ \A i \in 1 .. Len(text) : \E k \in 1 .. 10 : CharAt(text, i) = CharAt(Digits, k)

RECURSIVE parse(_)
parse(text) ==
    LET last == CHOOSE k \in 0 .. 9 : CharAt(text, Len(text)) = CharAt(Digits, k + 1)
    IN  IF Len(text) = 1 THEN last
        ELSE (10 * parse(SubSeq(text, 1, Len(text) - 1))) + last

\* toJSON() through an API
toJSON(api) ==
    /\ Begin("toJSON", "", Undefined, << >>)
    /\ LET names == Filter(api, PropNames(props))
           texts == [ k \in 1 .. Len(names) |-> stringify(ValueOf(props, names[k])) ]
       IN  IF \E k \in 1 .. Len(names) : ~IsNumberText(texts[k])
           THEN /\ Throw("SyntaxError")
                /\ UNCHANGED given
           ELSE /\ given' = << Gave("toJSON", api, names,
                                    [ k \in 1 .. Len(names) |-> parse(texts[k]) ]) >>
                /\ Continue(<< >>)
    /\ UNCHANGED << program, accessors, props, firedProps, listeners, chainListeners,
                    triggered, log >>

\* getAll(propNames) through an API
getAll(api, propNames) ==
    /\ Begin("getAll", "", Undefined, propNames)
    /\ LET names == Filter(api, propNames)
       IN  IF \E k \in 1 .. Len(names) : ~Has(props, names[k])
           THEN /\ Throw("NoSuchProperty")
                /\ UNCHANGED given
           ELSE /\ given' = << Gave("getAll", api, names, ValuesOf(props, names)) >>
                /\ Continue(<< >>)
    /\ UNCHANGED << program, accessors, props, firedProps, listeners, chainListeners,
                    triggered, log >>

\* getPropNames() through an API
getPropNames(api) ==
    /\ Begin("getPropNames", "", Undefined, << >>)
    /\ given' = << Gave("getPropNames", api, Filter(api, PropNames(props)), << >>) >>
    /\ Continue(<< >>)
    /\ UNCHANGED << program, accessors, props, firedProps, listeners, chainListeners,
                    triggered, log >>

\* The caller has the call's outcome and goes on.
Return ==
    /\ result \notin { "none", "running" }
    /\ result' = "none"
    /\ call' = NoCall
    /\ pre' = NoSnapshot
    /\ log' = << >>
    /\ given' = << >>
    /\ UNCHANGED << program, accessors, props, firedProps, listeners, chainListeners,
                    triggered, stack, failed >>

----------------------------------------------------------------------------
(* The steps of the call in progress.                                      *)

Running == result = "running" /\ stack # << >>

CurrentEvent == Top.events[Top.i]

\* _firePropChangeEvents, in its forEach: this._firedProps.add(propName),
\* then emit(`${propName}-changed`, propName, newValue, oldValue) begins.
FireEmit ==
    /\ Running /\ Top.op = "fire" /\ Top.pc = "emit"
    /\ firedProps' = SetAdd(firedProps, CurrentEvent.propName)
    /\ log' = Append(log, Changed(CurrentEvent, Len(stack)))
    /\ stack' = SetTop(stack, [ Top EXCEPT !.pc = "listeners", !.j = 1 ])
    /\ UNCHANGED << program, accessors, given, props, listeners, chainListeners, triggered,
                    call, result, pre, failed >>

\* DerivedListener with a slip: it passes calculateValue the first
\* dependency's value for every argument.
DerivedListenerFirstOnly(h, stk) ==
    /\ SingleSet("model", h.propName,
                 Calc(h.calc, [ k \in 1 .. Len(h.dependsOn) |-> ValueOf(props, h.dependsOn[1]) ]),
                 stk)
    /\ UNCHANGED triggered

\* The listener defineDerivedProp registers:
\*   () => { this.set(propName, calculateValue()) }
DerivedListener(h, stk) ==
    /\ SingleSet("model", h.propName, Calc(h.calc, ValuesOf(props, h.dependsOn)), stk)
    /\ UNCHANGED triggered

\* CalculateListener with a slip: the triggered flag is not consulted.
CalculateListenerUnguarded(h, stk) ==
    /\ SingleSet("model", h.propName, Calc(h.calc, ValuesOf(props, h.dependsOn)), stk)
    /\ UNCHANGED triggered

\* The first listener definePropView registers, on the base property:
\*   () => { if (!triggered) { this.set(viewName, calculateValue()) } }
CalculateListener(h, stk) ==
    /\ IF triggered[h.propName]
       THEN /\ Continue(stk)
            /\ UNCHANGED << props, log >>
       ELSE SingleSet("model", h.propName, Calc(h.calc, ValuesOf(props, h.dependsOn)), stk)
    /\ UNCHANGED triggered

\* What reduceBaseValue throws before it returns: this.get of a property
\* that is not defined throws in _get.
ReduceError(reduce, ps) ==
    IF reduce = "gated" /\ ~Has(ps, "k") THEN "NoSuchProperty" ELSE "none"

\* ReduceListener with a slip: the view's value is written to the base as
\* it is, without reduceBaseValue.
ReduceListenerWritesView(h, event, stk) ==
    /\ triggered' = [ triggered EXCEPT ![h.propName] = TRUE ]
    /\ SingleSet("model", h.dependsOn[1], event.newValue,
                 Append(stk, ReduceFrame(h.propName)))

\* ReduceListener with a slip: triggered is not set before the set().
ReduceListenerUnflagged(h, event, stk) ==
    IF ReduceError(h.reduce, props) # "none"
    THEN /\ Throw(ReduceError(h.reduce, props))
         /\ UNCHANGED << props, log, triggered >>
    ELSE /\ UNCHANGED triggered
         /\ SingleSet("model", h.dependsOn[1],
                      Reduce(h.reduce, event.newValue, ValueOf(props, h.dependsOn[1]), props),
                      Append(stk, ReduceFrame(h.propName)))

\* ReduceListener with a slip: the view's change is not written back.
ReduceListenerSuppressed(h, event, stk) ==
    /\ Continue(stk)
    /\ UNCHANGED << props, log, triggered >>

\* The second listener definePropView registers, on the view property:
\*   (ignore, newViewValue, oldViewValue) => {
\*     const newViewOfValue = reduceBaseValue(newViewValue, this.get(viewOf))
\*     triggered = true; this.set(viewOf, newViewOfValue); triggered = false }
\* up to the return of its set(); ReduceReturn is the rest.
ReduceListener(h, event, stk) ==
    IF ReduceError(h.reduce, props) # "none"
    THEN /\ Throw(ReduceError(h.reduce, props))
         /\ UNCHANGED << props, log, triggered >>
    ELSE /\ triggered' = [ triggered EXCEPT ![h.propName] = TRUE ]
         /\ SingleSet("model", h.dependsOn[1],
                      Reduce(h.reduce, event.newValue, ValueOf(props, h.dependsOn[1]), props),
                      Append(stk, ReduceFrame(h.propName)))

\* The listener createChangeHandler registers: the utilizer, which calls the
\* client's handler with the values of respondsTo.
CallbackListener(h, stk) ==
    /\ given' = Append(given, Gave("callback", h.api, h.dependsOn,
                                   ValuesOf(props, h.dependsOn)))
    /\ Continue(stk)
    /\ UNCHANGED << props, log, triggered >>

\* The listener onAny registers, the program's handler: called with
\* (propName, newValue, oldValue), it reads this.get(propName).
ReaderListener(h, event, stk) ==
    /\ given' = given \o << Gave("event", h.api, << event.propName >>,
                                 << event.newValue, event.oldValue >>),
                            Gave("get", h.api, << event.propName >>,
                                 << ValueOf(props, event.propName) >>) >>
    /\ Continue(stk)
    /\ UNCHANGED << props, log, triggered >>

\* emit calls the next listener of the event.
FireListener ==
    /\ Running /\ Top.op = "fire" /\ Top.pc = "listeners"
    /\ Top.j <= Len(listeners[CurrentEvent.propName])
    /\ LET h == listeners[CurrentEvent.propName][Top.j]
           stk == SetTop(stack, [ Top EXCEPT !.j = @ + 1 ])
       IN  CASE h.kind = "derived"   -> DerivedListener(h, stk) /\ UNCHANGED given
             [] h.kind = "calculate" -> CalculateListener(h, stk) /\ UNCHANGED given
             [] h.kind = "reduce"    -> ReduceListener(h, CurrentEvent, stk) /\ UNCHANGED given
             [] h.kind = "callback"  -> CallbackListener(h, stk)
             [] h.kind = "reader"    -> ReaderListener(h, CurrentEvent, stk)
    /\ UNCHANGED << program, accessors, firedProps, listeners, chainListeners, call, pre >>

\* emit has called every listener of the event: the forEach goes on to the
\* next event, or ends; then `if (firstInChain)` decides.
FireNext ==
    /\ Running /\ Top.op = "fire" /\ Top.pc = "listeners"
    /\ Top.j > Len(listeners[CurrentEvent.propName])
    /\ IF Top.i < Len(Top.events)
       THEN Continue(SetTop(stack, [ Top EXCEPT !.i = @ + 1, !.pc = "emit" ]))
       ELSE IF Top.firstInChain
            THEN Continue(SetTop(stack, [ Top EXCEPT !.pc = "complete" ]))
            ELSE Continue(Pop(stack))
    /\ UNCHANGED << program, accessors, given, props, firedProps, listeners, chainListeners,
                    triggered, call, pre, log >>

\* emit('prop-chain-completed', Array.from(this._firedProps)) begins.
\* FireComplete with a slip: the settle notification carries an empty list.
FireCompleteNoNames ==
    /\ Running /\ Top.op = "fire" /\ Top.pc = "complete"
    /\ log' = Append(log, Completed(<< >>, Len(stack)))
    /\ stack' = SetTop(stack, [ Top EXCEPT !.pc = "chain", !.j = 1, !.emitted = << >> ])
    /\ UNCHANGED << program, accessors, given, props, firedProps, listeners, chainListeners,
                    triggered, call, result, pre, failed >>

FireComplete ==
    /\ Running /\ Top.op = "fire" /\ Top.pc = "complete"
    /\ log' = Append(log, Completed(firedProps, Len(stack)))
    /\ stack' = SetTop(stack, [ Top EXCEPT !.pc = "chain", !.j = 1, !.emitted = firedProps ])
    /\ UNCHANGED << program, accessors, given, props, firedProps, listeners, chainListeners,
                    triggered, call, result, pre, failed >>

\* emit calls the next listener of 'prop-chain-completed', registered by
\* _onPropChainComplete: (firedProps) => handler(firedProps.filter(propFilter)),
\* where handler is the program's: it sets a property, or keeps the list.
ChainListener ==
    /\ Running /\ Top.op = "fire" /\ Top.pc = "chain"
    /\ Top.j <= Len(chainListeners)
    /\ LET h == chainListeners[Top.j]
           stk == SetTop(stack, [ Top EXCEPT !.j = @ + 1 ])
       IN  IF h.kind = "set"
           THEN /\ SingleSet("model", h.propName, h.value, stk)
                /\ UNCHANGED given
           ELSE /\ given' = Append(given, Gave("settled", h.api, Filter(h.api, Top.emitted), << >>))
                /\ Continue(stk)
                /\ UNCHANGED << props, log >>
    /\ UNCHANGED << program, accessors, firedProps, listeners, chainListeners, triggered,
                    call, pre >>

\* this._firedProps.clear(), and _firePropChangeEvents returns.
FireClear ==
    /\ Running /\ Top.op = "fire" /\ Top.pc = "chain"
    /\ Top.j > Len(chainListeners)
    /\ firedProps' = << >>
    /\ Continue(Pop(stack))
    /\ UNCHANGED << program, accessors, given, props, listeners, chainListeners, triggered,
                    call, pre, log >>

\* The view-to-base listener after its set() returned: triggered = false.
ReduceReturn ==
    /\ Running /\ Top.op = "reduce"
    /\ triggered' = [ triggered EXCEPT ![Top.view] = FALSE ]
    /\ Continue(Pop(stack))
    /\ UNCHANGED << program, accessors, given, props, firedProps, listeners, chainListeners,
                    call, pre, log >>

----------------------------------------------------------------------------

\* new PropsModel(eventEmitter), with a fresh emitter.
Init ==
    /\ program \in Programs
    /\ props = << >>
    /\ firedProps = << >>
    /\ listeners = [ n \in AllNames |-> << >> ]
    /\ chainListeners = << >>
    /\ triggered = [ n \in AllNames |-> FALSE ]
    /\ stack = << >>
    /\ call = NoCall
    /\ result = "none"
    /\ pre = NoSnapshot
    /\ log = << >>
    /\ failed = FALSE
    /\ accessors = { }
    /\ given = << >>

Define ==
    /\ Idle
    /\ \E def \in Catalog(program) :
        \/ defineProp(def)
        \/ defineDerivedProp(def)
        \/ definePropView(def)

Subscribe ==
    /\ Idle
    /\ \E handler \in ChainHandlers(program) : onPropChainComplete(handler)

\* The mappings the program passes to set(): any, or for the programs with
\* overlapping views the ones that name the base and its view, in either order.
Bulks(p) ==
    IF p \in OverlappingPrograms
    THEN { args \in Mappings({ "b", "v" }) : Len(args) = 2 }
    ELSE Mappings(Names(p))

SetOne ==
    /\ Idle
    /\ "set" \in Calls(program)
    /\ \E api \in Apis, propName \in Names(program), value \in Inputs(program) :
            Set(api, propName, value)

SetMany ==
    /\ Idle
    /\ "setAll" \in Calls(program)
    /\ \E api \in Apis, args \in Bulks(program) : SetAll(api, args)

Install ==
    /\ Idle
    /\ "installAccessors" \in Calls(program)
    /\ \E install \in Installs(program) : installAccessors(install[1], install[2])

CallSetter ==
    /\ Idle
    /\ \E accessor \in accessors, value \in Inputs(program) : Setter(accessor, value)

Read ==
    /\ Idle
    /\ "read" \in Calls(program)
    /\ \E api \in ReadApis :
        \/ \E propName \in Names(program) : get(api, propName)
        \/ \E propNames \in NameLists(program) :
              \/ createUtilizer(api, propNames)
              \/ getAll(api, propNames)
        \/ getAll(api, PropNames(props))
        \/ toJSON(api)
        \/ getPropNames(api)

Watch ==
    /\ Idle
    /\ "watch" \in Calls(program)
    /\ \E watch \in Watches(program) : createChangeHandler(watch[1], watch[2])

Listen ==
    /\ Idle
    /\ "onAny" \in Calls(program)
    /\ \E propNames \in Listens(program) : onAny(propNames)

Next ==
    \/ Define
    \/ Subscribe
    \/ Listen
    \/ SetOne
    \/ SetMany
    \/ Install
    \/ CallSetter
    \/ Read
    \/ Watch
    \/ Return
    \/ FireEmit
    \/ FireListener
    \/ FireNext
    \/ FireComplete
    \/ ChainListener
    \/ FireClear
    \/ ReduceReturn

Spec == Init /\ [][Next]_vars

\* A store with overlapping views: the define calls, the subscriptions and
\* the sets of an overlapping program, and the steps of the calls.
InitOverlapping ==
    /\ program \in OverlappingPrograms
    /\ props = << >>
    /\ firedProps = << >>
    /\ listeners = [ n \in AllNames |-> << >> ]
    /\ chainListeners = << >>
    /\ triggered = [ n \in AllNames |-> FALSE ]
    /\ stack = << >>
    /\ call = NoCall
    /\ result = "none"
    /\ pre = NoSnapshot
    /\ log = << >>
    /\ failed = FALSE
    /\ accessors = { }
    /\ given = << >>

\* The steps of a call in progress: JavaScript runs a call to its end.
Step ==
    \/ FireEmit
    \/ FireListener
    \/ FireNext
    \/ FireComplete
    \/ ChainListener
    \/ FireClear
    \/ ReduceReturn

NextOverlapping ==
    \/ Define
    \/ Subscribe
    \/ SetOne
    \/ SetMany
    \/ Return
    \/ Step

Overlapping == InitOverlapping /\ [][NextOverlapping]_vars /\ WF_vars(Step)

----------------------------------------------------------------------------
(* What the properties below read off a state.                             *)

IsSet == call.op \in { "set", "setAll" }

Returned == result = "ok"

Threw == result \notin { "none", "running", "ok" }

\* Every listener registered by a define call.
Handlers == UNION { Range(listeners[n]) : n \in AllNames }

\* The property's value is what its calculateValue gives now.
Computed(h) == ValueOf(props, h.propName) = Calc(h.calc, ValuesOf(props, h.dependsOn))

IsViewBase(propName) ==
    \E h \in Handlers : h.kind = "calculate" /\ h.dependsOn[1] = propName

DepChanged(h) ==
    \E p \in 1 .. Len(log) :
        log[p].type = "changed" /\ log[p].propName \in Range(h.dependsOn)

DefaultDeps(h) ==
    \A k \in 1 .. Len(h.dependsOn) : Prop(props, h.dependsOn[k]).didChange = "default"

ChainWritten(propName) == \E c \in Range(chainListeners) : c.propName = propName

\* The events the call in progress passed to _firePropChangeEvents.
OwnEvents ==
    IF call.op = "set" THEN SetEvents(pre.props, call.propName, call.value)
    ELSE BulkEvents(pre.props, call.args)

\* The call entered _firePropChangeEvents.
Fired == call.op = "setAll" \/ OwnEvents # << >>

Positions(type) == { p \in 1 .. Len(log) : log[p].type = type }

\* The 'prop-chain-completed' emits of the outermost call itself.
OwnCompleted == { p \in Positions("completed") : log[p].depth = 1 }

\* The change events the outermost call itself emitted, in order.
OwnChanged ==
    LET own == SelectSeq(log, LAMBDA x : x.type = "changed" /\ x.depth = 1)
    IN  [ k \in 1 .. Len(own) |->
            Event(own[k].propName, own[k].newValue, own[k].oldValue) ]

NoDuplicates(s) == \A i, k \in 1 .. Len(s) : i # k => s[i] # s[k]

ChangedBefore(p) ==
    { log[q].propName : q \in { q \in Positions("changed") : q < p } }

----------------------------------------------------------------------------
(* C1 *)

\* C1 as stated: after every completed outermost set call every derived
\* property (a view included) holds its compute function applied to the
\* current values of its dependencies.
C1_DerivedAlwaysComputed ==
    (IsSet /\ Returned) =>
        \A h \in Handlers : h.kind \in { "derived", "calculate" } => Computed(h)

\* C1 amended: after every completed outermost set call that delivered a
\* change event for a dependency of a derived property, that property holds
\* its compute function applied to the current values of its dependencies
\* in declaration order, when its dependencies use the default change
\* predicate and nothing but its own recomputation writes it after the
\* change (it is not the base of a view, no subscriber sets it).
C1_RecomputedOnDependencyChange ==
    (IsSet /\ Returned) =>
        \A h \in Handlers :
            ( /\ h.kind = "derived"
              /\ DepChanged(h)
              /\ DefaultDeps(h)
              /\ ~IsViewBase(h.propName)
              /\ ~ChainWritten(h.propName) ) => Computed(h)

\* A set of a dependency has completed and the derived property was
\* recomputed to a new value.
C1_Witness ==
    /\ call.op = "set" /\ Returned
    /\ ~Prop(props, call.propName).derived
    /\ \E h \in Handlers :
        /\ h.kind = "derived" /\ DepChanged(h) /\ DefaultDeps(h)
        /\ ~IsViewBase(h.propName) /\ ~ChainWritten(h.propName)
        /\ Len(h.dependsOn) = 2
        /\ ValueOf(props, h.propName) # ValueOf(pre.props, h.propName)
        /\ Computed(h)

----------------------------------------------------------------------------
(* C2 *)

\* C2 as stated: every outermost set call delivers the settle notification
\* exactly once, after every change event and every nested set of the call,
\* and no nested set delivers one.
C2_ExactlyOneSettle ==
    (IsSet /\ Returned) =>
        /\ Cardinality(Positions("completed")) = 1
        /\ \A p \in Positions("completed") : log[p].depth = 1 /\ p = Len(log)

\* C2 amended: an outermost set call delivers its settle notification at
\* most once, and only after all of its change events and the nested sets
\* they triggered; a call that returns has delivered it exactly when the
\* settle batch was empty as the call began and the call fired (a bulk set,
\* or a single set whose change predicate reported a change); a nested set
\* delivers one only under the settle notification of a call that changed
\* nothing.
C2_SettleOncePerChain ==
    IsSet =>
        /\ Cardinality(OwnCompleted) <= 1
        /\ \A p \in OwnCompleted :
            /\ SelectSeq(SubSeq(log, 1, p), LAMBDA x : x.type = "changed" /\ x.depth = 1)
                 = SelectSeq(log, LAMBDA x : x.type = "changed" /\ x.depth = 1)
            /\ OwnChanged = OwnEvents
        /\ \A p \in Positions("completed") :
            log[p].depth > 1 =>
                \E q \in OwnCompleted : q < p /\ log[q].names = << >>
        /\ Returned => (OwnCompleted # { } <=> (pre.firedProps = << >> /\ Fired))

\* An outermost set has returned after a cascade of nested sets and has
\* delivered its settle notification after them.
C2_Witness ==
    /\ IsSet /\ Returned
    /\ \E p \in OwnCompleted :
        \E q \in Positions("changed") : q < p /\ log[q].depth > 1

----------------------------------------------------------------------------
(* C3 *)

\* C3 as stated: the list of the settle notification holds exactly the names
\* whose change event was delivered anywhere in the call, each once.
C3_SettleListsAllChanged ==
    (IsSet /\ Returned) =>
        \A p \in OwnCompleted :
            /\ Range(log[p].names) = { log[q].propName : q \in Positions("changed") }
            /\ NoDuplicates(log[p].names)

\* C3 amended: the list of the settle notification holds exactly the names
\* whose change event was delivered in the call before the settle
\* notification, each once.
C3_SettleListsChangedBefore ==
    IsSet =>
        \A p \in OwnCompleted :
            /\ Range(log[p].names) = ChangedBefore(p)
            /\ NoDuplicates(log[p].names)

\* A settle notification lists several names, one of which changed twice
\* in the cascade.
C3_Witness ==
    /\ IsSet /\ Returned
    /\ \E p \in OwnCompleted :
        /\ Len(log[p].names) >= 2
        /\ Cardinality({ q \in Positions("changed") : q < p }) > Len(log[p].names)

----------------------------------------------------------------------------
(* C4 *)

\* The i-th entry of a bulk set is refused: its key is not defined, or the
\* API's write validator refuses the key, or the property's validator
\* refuses the value.
Offending(api, ps, args, i) ==
    IF ~Has(ps, args[i][1]) THEN TRUE
    ELSE IF WriteRejects(api, ps, args[i][1]) THEN TRUE
    ELSE ValidatorRejects(Prop(ps, args[i][1]).valueValidator, args[i][2])

\* C4: a bulk set with an entry that is refused, at whatever position of the
\* mapping, throws, leaves every property's value and the settle batch as
\* they were, and delivers no change and no settle notification.
C4_BulkRejectedHasNoEffect ==
    [][ \A api \in Apis :
          ( /\ Idle
            /\ call'.op = "setAll"
            /\ SetAll(api, call'.args)
            /\ \E i \in 1 .. Len(call'.args) : Offending(api, props, call'.args, i) )
          => ( /\ result' \notin { "ok", "running", "none" }
               /\ props' = props
               /\ firedProps' = firedProps
               /\ stack' = << >>
               /\ log' = << >> ) ]_vars

\* A bulk set has thrown for its second entry, refused by the validator,
\* after a first entry that is accepted and would have changed its property.
C4_Witness ==
    /\ call.op = "setAll" /\ Threw
    /\ Len(call.args) = 2
    /\ ~Offending("model", pre.props, call.args, 1)
    /\ call.args[1][2] # ValueOf(pre.props, call.args[1][1])
    /\ Has(pre.props, call.args[2][1])
    /\ ValidatorRejects(Prop(pre.props, call.args[2][1]).valueValidator, call.args[2][2])
    /\ props = pre.props
    /\ log = << >>

----------------------------------------------------------------------------
(* C5 *)

\* C5 as stated: a bulk set that returns has delivered the change events of
\* exactly the entries whose didChange reports a change, in the order of the
\* mapping, followed by exactly one settle notification.
C5_BulkEventsThenOneSettle ==
    (call.op = "setAll" /\ Returned) =>
        /\ OwnChanged = OwnEvents
        /\ Cardinality(OwnCompleted) = 1
        /\ \A p \in OwnCompleted :
            \A q \in Positions("changed") : log[q].depth = 1 => q < p

\* The same holds as long as no call has thrown before.
C5_HoldsUntilAFailure == failed \/ C5_BulkEventsThenOneSettle

----------------------------------------------------------------------------
(* C6 *)

\* The value the bulk set in progress gives the property: the entry's value
\* for a key of the mapping, the value before the call for any other.
AfterDirectWrites(propName) ==
    IF \E i \in 1 .. Len(call.args) : call.args[i][1] = propName
    THEN call.args[CHOOSE i \in 1 .. Len(call.args) : call.args[i][1] = propName][2]
    ELSE ValueOf(pre.props, propName)

\* C6: in a bulk set every entry's value is stored before any notification
\* of the call is delivered: the writes come first in the call's record,
\* the first change event is delivered on a store that holds every entry's
\* value, and the first recomputation of a derived property reads all of
\* the entries' values.
C6_BulkWritesBeforeEvents ==
    (call.op = "setAll" /\ result \in { "running", "ok" }) =>
        /\ Len(log) >= Len(call.args)
        /\ \A i \in 1 .. Len(call.args) :
            /\ log[i].type = "wrote" /\ log[i].depth = 0
            /\ log[i].propName = call.args[i][1] /\ log[i].newValue = call.args[i][2]
        /\ ( /\ Len(log) = Len(call.args) + 1
             /\ log[Len(log)].type = "changed" )
           => \A i \in 1 .. Len(call.args) :
                ValueOf(props, call.args[i][1]) = call.args[i][2]
        /\ \A h \in Handlers :
            ( /\ h.kind = "derived"
              /\ Len(log) = Len(call.args) + 2
              /\ log[Len(log) - 1].type = "changed" /\ log[Len(log) - 1].depth = 1
              /\ log[Len(log)].type = "wrote" /\ log[Len(log)].propName = h.propName )
            => log[Len(log)].newValue
                 = Calc(h.calc, [ k \in 1 .. Len(h.dependsOn) |->
                                    AfterDirectWrites(h.dependsOn[k]) ])

\* A bulk set changes two primary properties; on the first change event
\* the property derived from both has been recomputed from both new values.
C6_Witness ==
    /\ call.op = "setAll" /\ result = "running"
    /\ Len(call.args) = 2 /\ Len(OwnEvents) = 2
    /\ \A i \in 1 .. 2 : ~Prop(props, call.args[i][1]).derived
    /\ Len(log) = 4 /\ log[3].type = "changed" /\ log[4].type = "wrote"
    /\ \E h \in Handlers :
        /\ h.kind = "derived" /\ log[4].propName = h.propName
        /\ Range(h.dependsOn) = { call.args[1][1], call.args[2][1] }
        /\ log[4].newValue = Calc(h.calc, << call.args[1][2], call.args[2][2] >>)

----------------------------------------------------------------------------
(* C7 *)

\* A listener run by the call in progress has written the property.
WrittenByListener(propName) ==
    \E p \in Positions("wrote") : log[p].depth >= 1 /\ log[p].propName = propName

\* C7 as stated: once set(name, v) on a primary property has returned, the
\* property holds v.
C7_SetThenGet ==
    (call.op = "set" /\ Returned /\ ~Prop(props, call.propName).derived) =>
        ValueOf(props, call.propName) = call.value

\* C7 amended: once set(name, v) on a primary property has returned, the
\* property holds v, whatever its change predicate reported, provided no
\* listener run by the call (a view's write-back to its base, a subscriber)
\* has written the property again.
C7_SetThenGetUnlessRewritten ==
    ( /\ call.op = "set" /\ Returned
      /\ ~Prop(props, call.propName).derived
      /\ ~WrittenByListener(call.propName) ) =>
        ValueOf(props, call.propName) = call.value

\* A set has stored a new value in a primary property whose change
\* predicate reported no change.
C7_Witness ==
    /\ call.op = "set" /\ Returned
    /\ ~Prop(props, call.propName).derived
    /\ Prop(props, call.propName).didChange # "default"
    /\ call.value # ValueOf(pre.props, call.propName)
    /\ SetEvents(pre.props, call.propName, call.value) = << >>
    /\ ValueOf(props, call.propName) = call.value

----------------------------------------------------------------------------
(* C8 *)

\* C8: a single-property set whose value the property's validator refuses
\* throws the validator's own error, leaves the stored values and the settle
\* batch as they were, and delivers no change and no settle notification.
C8_ValidatorRejectionHasNoEffect ==
    [][ \A api \in Apis :
          ( /\ Idle
            /\ call'.op = "set"
            /\ Set(api, call'.propName, call'.value)
            /\ Has(props, call'.propName)
            /\ ~WriteRejects(api, props, call'.propName)
            /\ ValidatorRejects(Prop(props, call'.propName).valueValidator, call'.value) )
          => ( /\ result' = ValidatorError(Prop(props, call'.propName).valueValidator)
               /\ props' = props
               /\ firedProps' = firedProps
               /\ stack' = << >>
               /\ log' = << >> ) ]_vars

\* A set of a value that differs from the stored one has thrown the
\* validator's error and the store is as before.
C8_Witness ==
    /\ call.op = "set" /\ Has(pre.props, call.propName)
    /\ ValidatorRejects(Prop(pre.props, call.propName).valueValidator, call.value)
    /\ result = ValidatorError(Prop(pre.props, call.propName).valueValidator)
    /\ call.value # ValueOf(pre.props, call.propName)
    /\ props = pre.props
    /\ log = << >>

----------------------------------------------------------------------------
(* C9 *)

\* C9 as stated: when a set call has thrown, the property values, the settle
\* batch and the view guards are what they were before the call.
C9_FailedSetRestoresState ==
    (IsSet /\ Threw) =>
        /\ props = pre.props
        /\ firedProps = pre.firedProps
        /\ triggered = pre.triggered

----------------------------------------------------------------------------
(* C10 *)

\* C10 as stated: after a call has thrown, an outermost set that changes a
\* property delivers its change events, recomputes the derived properties
\* of what changed, and delivers exactly one settle notification listing
\* the names changed before it.
C10_UsableAfterFailure ==
    (failed /\ IsSet /\ Returned /\ OwnEvents # << >>) =>
        /\ OwnChanged = OwnEvents
        /\ \A h \in Handlers :
            ( /\ h.kind = "derived" /\ DepChanged(h) /\ DefaultDeps(h)
              /\ ~IsViewBase(h.propName) /\ ~ChainWritten(h.propName) ) => Computed(h)
        /\ Cardinality(OwnCompleted) = 1
        /\ \A p \in OwnCompleted : Range(log[p].names) = ChangedBefore(p)

----------------------------------------------------------------------------
(* C11 *)

\* C11: a define call of any kind under a name that is already defined
\* throws and leaves the store as it was: the first definition's value and
\* kind, the listeners, the view guards and the settle batch are unchanged
\* and nothing is emitted.
C11_DuplicateDefinitionRejected ==
    [][ \A def \in Catalog(program) :
          ( /\ Idle
            /\ Has(props, def.propName)
            /\ \/ defineProp(def)
               \/ defineDerivedProp(def)
               \/ definePropView(def) )
          => ( /\ result' = "AlreadyDefined"
               /\ props' = props
               /\ listeners' = listeners
               /\ chainListeners' = chainListeners
               /\ triggered' = triggered
               /\ firedProps' = firedProps
               /\ stack' = << >>
               /\ log' = << >> ) ]_vars

\* A view has been defined under the name of a primary property whose value
\* a set had changed: the call threw and the property is as it was.
C11_Witness ==
    /\ call.op = "definePropView" /\ result = "AlreadyDefined"
    /\ Has(props, call.propName)
    /\ ~Prop(props, call.propName).derived
    /\ ValueOf(props, call.propName) = 2
    /\ props = pre.props
    /\ log = << >>

----------------------------------------------------------------------------
(* C12 *)

\* Every dependency of every ordinary derived property is a property that
\* was defined before it: the order of definition ranks the dependency
\* relation, which is therefore acyclic.
DependenciesDefinedEarlier ==
    \A h \in Handlers :
        h.kind = "derived" =>
            \A k \in 1 .. Len(h.dependsOn) :
                /\ Has(props, h.dependsOn[k])
                /\ Idx(props, h.dependsOn[k]) < Idx(props, h.propName)

\* C12: defineDerivedProp with a dependency that is not defined (its own
\* name included) throws and registers neither the property nor a
\* listener; and in every state each dependency of a derived property was
\* defined before the property, so the dependency relation is acyclic.
C12_NoForwardDependencies ==
    /\ [][ \A def \in Catalog(program) :
             ( /\ Idle
               /\ ~Has(props, def.propName)
               /\ defineDerivedProp(def)
               /\ \E k \in 1 .. Len(def.dependsOn) : ~Has(props, def.dependsOn[k]) )
             => ( /\ result' = "UnknownProperty"
                  /\ props' = props
                  /\ listeners' = listeners
                  /\ firedProps' = firedProps
                  /\ stack' = << >>
                  /\ log' = << >> ) ]_vars
    /\ []DependenciesDefinedEarlier

\* A derived property that names itself as a dependency has been refused,
\* on a store that holds other properties.
C12_Witness ==
    /\ call.op = "defineDerivedProp" /\ result = "UnknownProperty"
    /\ \E def \in Catalog(program) :
        /\ def.op = "defineDerivedProp" /\ def.propName = call.propName
        /\ call.propName \in Range(def.dependsOn)
    /\ ~Has(props, call.propName)
    /\ props # << >>
    /\ props = pre.props

----------------------------------------------------------------------------
(* C13 *)

\* The rectangle of the README as constructed: length 10, width 20, area
\* 200 and perimeter 60.
RectangleAsBuilt(ps) ==
    /\ \A n \in { "length", "width", "area", "perimeter" } : Has(ps, n)
    /\ ValueOf(ps, "length") = InitialLength
    /\ ValueOf(ps, "width") = InitialWidth
    /\ ValueOf(ps, "area") = 200
    /\ ValueOf(ps, "perimeter") = 60

\* C13: on the rectangle with length 10 and width 20, setting length to 15,
\* by set or by the installed setter, leaves area 300 and perimeter 70 and
\* delivers exactly one settle notification, listing length, area and
\* perimeter.
C13_RectangleSetLength ==
    ( /\ call.op = "set" /\ Returned
      /\ call.propName = "length" /\ call.value = NewLength
      /\ RectangleAsBuilt(pre.props) ) =>
        /\ ValueOf(props, "length") = 15
        /\ ValueOf(props, "area") = 300
        /\ ValueOf(props, "perimeter") = 70
        /\ Cardinality(Positions("completed")) = 1
        /\ \A p \in Positions("completed") :
            /\ Range(log[p].names) = { "length", "area", "perimeter" }
            /\ Len(log[p].names) = 3
            /\ p = Len(log)

\* The installed setter setLength(15) has returned on the rectangle as built.
C13_Witness ==
    /\ call.op = "set" /\ Returned
    /\ call.via = "setLength" /\ call.value = NewLength
    /\ RectangleAsBuilt(pre.props)
    /\ ValueOf(props, "area") = 300

----------------------------------------------------------------------------
(* C14 *)

\* The property is a view: definePropView registered its write-back.
IsView(propName) == \E h \in Handlers : h.kind = "reduce" /\ h.propName = propName

\* The writes the call in progress made to the property.
WritesTo(propName) == { p \in Positions("wrote") : log[p].propName = propName }

\* C14: while a set of a view runs, and after it, the view has been assigned
\* exactly once, by the set itself: the change of the base that the
\* write-back causes does not recompute the view, the view holds the value
\* set, and the base is written at most once, so the cascade ends.
C14_ViewAssignedOnce ==
    (call.op = "set" /\ log # << >> /\ IsView(call.propName)) =>
        /\ Cardinality(WritesTo(call.propName)) = 1
        /\ ValueOf(props, call.propName) = call.value
        /\ \A h \in Handlers :
            (h.kind = "reduce" /\ h.propName = call.propName) =>
                Cardinality(WritesTo(h.dependsOn[1])) <= 1

\* A set of a view has returned after its write-back changed the base to a
\* value whose view differs from the value set: the view was not recomputed.
C14_Witness ==
    /\ call.op = "set" /\ Returned
    /\ \E h \in Handlers :
        /\ h.kind = "reduce" /\ h.propName = call.propName
        /\ \E p \in Positions("changed") : log[p].propName = h.dependsOn[1]
        /\ Calc(h.calc, ValuesOf(props, h.dependsOn)) # call.value
        /\ ValueOf(props, call.propName) = call.value

----------------------------------------------------------------------------
(* C15 *)

\* The change events the call in progress delivered for the property.
EventsOf(propName) == { p \in Positions("changed") : log[p].propName = propName }

\* C15 as stated: when a set of a view's base has recomputed the view, the
\* view's change does not write the base again: the base has been assigned
\* once and one change event of the base has been delivered.
C15_WriteBackSuppressed ==
    \A h \in Handlers :
        ( /\ h.kind = "reduce"
          /\ call.op = "set" /\ call.propName = h.dependsOn[1] /\ Returned
          /\ WritesTo(h.propName) # { } ) =>
            /\ Cardinality(WritesTo(call.propName)) = 1
            /\ Cardinality(EventsOf(call.propName)) = 1

\* C15 amended: when a set of a view's base has recomputed the view, the
\* view has been assigned once; if the recomputed value counted as a change
\* of the view, the view's change handler has written reduce(view value,
\* value set) to the base, which so has been assigned twice and holds that
\* value, with a second change event of the base exactly when that write
\* counts as a change of the base; otherwise the base has been assigned once.
C15_WriteBackNotSuppressed ==
    \A h \in Handlers :
        ( /\ h.kind = "reduce"
          /\ call.op = "set" /\ call.propName = h.dependsOn[1] /\ Returned
          /\ WritesTo(h.propName) # { } ) =>
            /\ Cardinality(WritesTo(h.propName)) = 1
            /\ Cardinality(EventsOf(h.propName)) <= 1
            /\ IF EventsOf(h.propName) # { }
               THEN LET written == Reduce(h.reduce, ValueOf(props, h.propName), call.value, props)
                    IN  /\ Cardinality(WritesTo(call.propName)) = 2
                        /\ ValueOf(props, call.propName) = written
                        /\ Cardinality(EventsOf(call.propName)) =
                             IF DidChange(Prop(props, call.propName).didChange,
                                          written, call.value)
                             THEN 2 ELSE 1
               ELSE /\ Cardinality(WritesTo(call.propName)) = 1
                    /\ Cardinality(EventsOf(call.propName)) = 1

\* A set of a view's base has returned with the base holding the value the
\* view's write-back gave it, not the value set.
C15_Witness ==
    \E h \in Handlers :
        /\ h.kind = "reduce"
        /\ call.op = "set" /\ call.propName = h.dependsOn[1] /\ Returned
        /\ EventsOf(h.propName) # { }
        /\ Cardinality(EventsOf(call.propName)) = 2
        /\ ValueOf(props, call.propName) # call.value

----------------------------------------------------------------------------
(* C16 *)

\* The values the outermost call's own change events gave the property.
OwnNewValues(propName) ==
    { OwnEvents[k].newValue :
        k \in { k \in 1 .. Len(OwnEvents) : OwnEvents[k].propName = propName } }

\* The value the assignment at position p of the log replaced: the one the
\* latest earlier assignment of the property gave it, or the one it had when
\* the outermost call began.
ValueBefore(p) ==
    LET earlier == { q \in WritesTo(log[p].propName) : q < p }
    IN  IF earlier = { } THEN ValueOf(pre.props, log[p].propName)
        ELSE log[CHOOSE q \in earlier : \A r \in earlier : r <= q].newValue

\* The assignments of the view's base that wrote reduceBaseValue(viewValue,
\* the base's value at that moment).
WriteBacks(h, viewValue) ==
    { p \in WritesTo(h.dependsOn[1]) :
        log[p].newValue = Reduce(h.reduce, viewValue, ValueBefore(p), props) }

\* The change events of the assignment at position p of the log.
EventsAfter(p) ==
    { e \in EventsOf(log[p].propName) :
        /\ e > p
        /\ log[e].newValue = log[p].newValue
        /\ log[e].oldValue = ValueBefore(p) }

\* The properties other than the view that are derived from the view's base,
\* written by nothing but their own recomputation.
DerivedOfBase(h) ==
    { g \in Handlers :
        /\ g.kind = "derived"
        /\ h.dependsOn[1] \in Range(g.dependsOn)
        /\ DefaultDeps(g)
        /\ ~IsViewBase(g.propName)
        /\ ~ChainWritten(g.propName) }

\* C16 as stated: when a completed set call changed a view property to v,
\* the base has been assigned reduceBaseValue(v, b), b its value at that
\* moment, the base's change event has been delivered and the other
\* properties derived from the base hold their recomputed values.
C16_ViewSetFiresBase ==
    (IsSet /\ Returned) =>
        \A h \in Handlers : h.kind = "reduce" =>
            \A v \in OwnNewValues(h.propName) :
                \E p \in WriteBacks(h, v) :
                    /\ EventsAfter(p) # { }
                    /\ \A g \in DerivedOfBase(h) : Computed(g)

\* C16 amended: when a completed set call changed a view property to v, the
\* base has been assigned reduceBaseValue(v, b), b its value at that moment;
\* the base's change event has been delivered exactly when that assignment
\* counts as a change by the base's change predicate, and then the other
\* properties derived from the base hold their compute function of the
\* current values.
C16_ViewSetWritesBase ==
    (IsSet /\ Returned) =>
        \A h \in Handlers : h.kind = "reduce" =>
            \A v \in OwnNewValues(h.propName) :
                \E p \in WriteBacks(h, v) :
                    /\ EventsAfter(p) # { } <=>
                         DidChange(Prop(props, h.dependsOn[1]).didChange,
                                   log[p].newValue, ValueBefore(p))
                    /\ EventsAfter(p) # { } =>
                         \A g \in DerivedOfBase(h) : Computed(g)

\* A set of a view has completed: the base was given the reduced value, its
\* change event was delivered and a property derived from the base was
\* recomputed to a new value.
C16_Witness ==
    /\ call.op = "set" /\ Returned /\ ~failed
    /\ \E h \in Handlers :
        /\ h.kind = "reduce" /\ call.propName = h.propName
        /\ \E v \in OwnNewValues(h.propName) : \E p \in WriteBacks(h, v) :
              EventsAfter(p) # { }
        /\ \E g \in DerivedOfBase(h) :
              /\ Computed(g)
              /\ ValueOf(props, g.propName) # ValueOf(pre.props, g.propName)

----------------------------------------------------------------------------
(* C17 *)

\* The property is the view, its base or a dependency of the base.
InPair(h, propName) ==
    \/ propName = h.propName
    \/ propName \in Range(h.dependsOn)
    \/ \E g \in Handlers :
          g.propName \in Range(h.dependsOn) /\ propName \in Range(g.dependsOn)

\* C17: during and after a set of a property that a view's reduceBaseValue
\* reads through get, and that is neither the view, its base nor a dependency
\* of the base, the view and the base hold the values they had when the call
\* began and no change event of either has been delivered.
C17_ConsultedPropertyDoesNotTrigger ==
    \A h \in Handlers :
        ( /\ h.kind = "reduce"
          /\ call.op = "set"
          /\ call.propName \in Range(Consults(h.reduce))
          /\ ~InPair(h, call.propName) ) =>
            /\ ValueOf(props, h.propName) = ValueOf(pre.props, h.propName)
            /\ ValueOf(props, h.dependsOn[1]) = ValueOf(pre.props, h.dependsOn[1])
            /\ EventsOf(h.propName) = { }
            /\ EventsOf(h.dependsOn[1]) = { }

\* A set of the consulted property has completed, changed it and delivered
\* its change event, with the view defined over a base that the new value
\* of the consulted property would let the reducer change.
C17_Witness ==
    \E h \in Handlers :
        /\ h.kind = "reduce"
        /\ call.op = "set" /\ Returned /\ ~failed
        /\ call.propName \in Range(Consults(h.reduce))
        /\ ~InPair(h, call.propName)
        /\ EventsOf(call.propName) # { }
        /\ Reduce(h.reduce, ValueOf(props, h.propName),
                  ValueOf(props, h.dependsOn[1]), props)
             # Reduce(h.reduce, ValueOf(props, h.propName),
                      ValueOf(props, h.dependsOn[1]), pre.props)

----------------------------------------------------------------------------
(* C18 *)

\* getStandardPrivateApi (the owner's) and getStandardPublicApi.
StandardApis == { "private", "public" }

\* The call threw the access error and nothing was assigned, emitted or
\* installed.
DeniedWithoutEffect ==
    /\ result' = "AccessDenied"
    /\ props' = props
    /\ accessors' = accessors
    /\ log' = << >>
    /\ stack' = << >>

\* Every key of the propertyAccess object names a defined property with a
\* known access type, and one names a derived property with 'readwrite'.
AsksDerivedReadWrite(propertyAccess) ==
    /\ \A i \in 1 .. Len(propertyAccess) :
          /\ Has(props, propertyAccess[i][1])
          /\ toLowerCase(propertyAccess[i][2]) \in { "readonly", "readwrite", "none" }
    /\ \E i \in 1 .. Len(propertyAccess) :
          /\ Prop(props, propertyAccess[i][1]).derived
          /\ toLowerCase(propertyAccess[i][2]) = "readwrite"

\* C18: through the owner's API and through the public API, a set of a
\* defined derived property, a bulk set whose keys are all defined and one
\* of which is derived, and an installAccessors whose keys are all defined
\* and ask 'readwrite' for a derived property, each throw the access error
\* and leave every property's value as it was, with nothing emitted and no
\* accessor installed.
C18_DerivedWriteDenied ==
    [][ \A api \in StandardApis :
          /\ ( /\ Idle /\ call'.op = "set"
               /\ Has(props, call'.propName)
               /\ Prop(props, call'.propName).derived
               /\ Set(api, call'.propName, call'.value) ) => DeniedWithoutEffect
          /\ ( /\ Idle /\ call'.op = "setAll"
               /\ \A i \in 1 .. Len(call'.args) : Has(props, call'.args[i][1])
               /\ \E i \in 1 .. Len(call'.args) : Prop(props, call'.args[i][1]).derived
               /\ SetAll(api, call'.args) ) => DeniedWithoutEffect
          /\ ( /\ Idle /\ call'.op = "installAccessors"
               /\ AsksDerivedReadWrite(call'.args)
               /\ installAccessors(api, call'.args) ) => DeniedWithoutEffect ]_vars

\* A bulk set of a primary property, to a new value, and of a derived
\* property with a public name was denied; every value is as it was.
C18_Witness ==
    /\ call.op = "setAll" /\ result = "AccessDenied"
    /\ props = pre.props
    /\ Len(call.args) = 2
    /\ \A i \in 1 .. 2 :
          Has(props, call.args[i][1]) /\ propNameIsPublic(call.args[i][1])
    /\ \E i, k \in 1 .. 2 :
          /\ Prop(props, call.args[i][1]).derived
          /\ ~Prop(props, call.args[k][1]).derived
          /\ ~ValidatorRejects(Prop(props, call.args[k][1]).valueValidator, call.args[k][2])
          /\ call.args[k][2] # ValueOf(props, call.args[k][1])

----------------------------------------------------------------------------
(* C19 *)

\* The name is internal: it begins with an underscore.
Internal(propName) == StartsWith(propName, "_")

\* The step threw to its caller and changed nothing in the store, the
\* listeners or the target, and gave nothing.
FailsWithoutEffect ==
    /\ result' \notin { "none", "running", "ok" }
    /\ props' = props
    /\ listeners' = listeners
    /\ accessors' = accessors
    /\ given' = << >>
    /\ log' = << >>

\* What the public API does with an internal name in get, set, bulk set,
\* createUtilizer and createChangeHandler: it throws.
PublicCallsFail ==
    /\ ( /\ Idle /\ call'.op = "get" /\ Internal(call'.propName)
         /\ get("public", call'.propName) ) => FailsWithoutEffect
    /\ ( /\ Idle /\ call'.op = "set" /\ Internal(call'.propName)
         /\ Set("public", call'.propName, call'.value) ) => FailsWithoutEffect
    /\ ( /\ Idle /\ call'.op = "setAll"
         /\ \E i \in 1 .. Len(call'.args) : Internal(call'.args[i][1])
         /\ SetAll("public", call'.args) ) => FailsWithoutEffect
    /\ ( /\ Idle /\ call'.op = "createUtilizer"
         /\ \E i \in 1 .. Len(call'.args) : Internal(call'.args[i])
         /\ createUtilizer("public", call'.args) ) => FailsWithoutEffect
    /\ ( /\ Idle /\ call'.op = "createChangeHandler"
         /\ \E i \in 1 .. Len(call'.args) : Internal(call'.args[i])
         /\ createChangeHandler("public", call'.args) ) => FailsWithoutEffect

\* What the public API does with a defined primary property whose name is
\* not internal: get returns its value, and set assigns the value unless the
\* property's own valueValidator rejects it.
PublicPrimaryReadWrite ==
    /\ ( /\ Idle /\ call'.op = "get"
         /\ Has(props, call'.propName) /\ ~Internal(call'.propName)
         /\ ~Prop(props, call'.propName).derived
         /\ get("public", call'.propName) ) =>
            /\ result' = "ok"
            /\ given' = << Gave("get", "public", << call'.propName >>,
                                << ValueOf(props, call'.propName) >>) >>
    /\ ( /\ Idle /\ call'.op = "set"
         /\ Has(props, call'.propName) /\ ~Internal(call'.propName)
         /\ ~Prop(props, call'.propName).derived
         /\ ~ValidatorRejects(Prop(props, call'.propName).valueValidator, call'.value)
         /\ Set("public", call'.propName, call'.value) ) =>
            /\ result' \in { "ok", "running" }
            /\ ValueOf(props', call'.propName) = call'.value

\* Whatever a call through the public API returned, and whatever a handler
\* registered through it was called with, names no internal property.
PublicGivesNoInternal ==
    \A k \in 1 .. Len(given) :
        given[k].api = "public" =>
            \A i \in 1 .. Len(given[k].names) : ~Internal(given[k].names[i])

\* C19 as stated: through the public API get, set, createUtilizer,
\* createChangeHandler and installAccessors throw for an internal name;
\* toJSON, getAll, getPropNames and the settle lists omit internal names;
\* a primary property that is not internal can be read and written.
C19_PublicHidesInternal ==
    /\ [][ /\ PublicCallsFail
           /\ PublicPrimaryReadWrite
           /\ ( /\ Idle /\ call'.op = "installAccessors"
                /\ \E i \in 1 .. Len(call'.args) : Internal(call'.args[i][1])
                /\ installAccessors("public", call'.args) ) => FailsWithoutEffect ]_vars
    /\ []PublicGivesNoInternal

\* C19 amended: as stated, except that installAccessors throws for an
\* internal name when it asks 'readonly' or 'readwrite' for it (or when it
\* throws for another key); asked 'none' for it, it returns normally and
\* installs no accessor of the internal property.
C19_PublicHidesInternalButNone ==
    /\ [][ /\ PublicCallsFail
           /\ PublicPrimaryReadWrite
           /\ ( /\ Idle /\ call'.op = "installAccessors"
                /\ \E i \in 1 .. Len(call'.args) :
                      /\ Internal(call'.args[i][1])
                      /\ toLowerCase(call'.args[i][2]) \in { "readonly", "readwrite" }
                /\ installAccessors("public", call'.args) ) => FailsWithoutEffect
           /\ ( /\ Idle /\ call'.op = "installAccessors"
                /\ installAccessors("public", call'.args) ) =>
                    \A f \in accessors' \ accessors : ~Internal(f.propName) ]_vars
    /\ []PublicGivesNoInternal

\* A set of the internal property on the model has completed; the handler
\* registered through the public API was called with a settle list that
\* names the derived property and not the internal one.
C19_Witness ==
    /\ call.op = "set" /\ Returned
    /\ Internal(call.propName)
    /\ \E p \in OwnCompleted : Len(log[p].names) = 2 /\ call.propName \in Range(log[p].names)
    /\ \E k \in 1 .. Len(given) :
          /\ given[k].type = "settled" /\ given[k].api = "public"
          /\ Len(given[k].names) = 1
          /\ call.propName \notin Range(given[k].names)

----------------------------------------------------------------------------
(* C20 *)

\* The readChecker of the createApi facade returns a falsy value or an
\* Error object for the name.
CheckerDenies(propName) == CustomChecker(propName) \in { "false", "Error" }

\* C20 as stated: through createApi(readChecker) with the default
\* validators, get, createUtilizer and createChangeHandler throw for a
\* property the checker denies with a falsy value or an Error object, and
\* nothing the API returns or passes to a handler registered through it
\* (toJSON, getAll, getPropNames, the settle lists) names such a property.
C20_CheckerDeniesEveryReadPath ==
    /\ [][ /\ ( /\ Idle /\ call'.op = "get" /\ CheckerDenies(call'.propName)
                /\ get("custom", call'.propName) ) => FailsWithoutEffect
           /\ ( /\ Idle /\ call'.op = "createUtilizer"
                /\ \E i \in 1 .. Len(call'.args) : CheckerDenies(call'.args[i])
                /\ createUtilizer("custom", call'.args) ) => FailsWithoutEffect
           /\ ( /\ Idle /\ call'.op = "createChangeHandler"
                /\ \E i \in 1 .. Len(call'.args) : CheckerDenies(call'.args[i])
                /\ createChangeHandler("custom", call'.args) ) => FailsWithoutEffect ]_vars
    /\ [](\A k \in 1 .. Len(given) :
            given[k].api = "custom" =>
                \A i \in 1 .. Len(given[k].names) : ~CheckerDenies(given[k].names[i]))

-----------------------------------------------------------------------------
(* C21 *)

\* The value a define call in progress gives the property: the initial value
\* passed, or for a derived property without one what calculateValue gives
\* on the dependencies as they were at the call.
InitialValue ==
    IF call.op = "defineProp" \/ call.value # Undefined THEN call.value
    ELSE LET h == CHOOSE h \in Handlers : h.kind = "derived" /\ h.propName = call.propName
         IN  Calc(h.calc, ValuesOf(pre.props, h.dependsOn))

\* C21: defining a primary or a derived property delivers the change event
\* (name, initialValue, undefined) exactly when didChange(initialValue,
\* undefined) is true, and delivers it after the property is registered, so
\* that a subscriber reading the property during the event sees the initial
\* value; the value validator is not applied to the initial value.
\* (initial: the change events the define call itself fired; read: what the
\* program's handler read of the property while no listener had written it.)
C21_InitialChangeEvent ==
    LET initial == { q \in Positions("changed") : log[q].depth = 1 }
        read == { given[g].values[1] :
                    g \in { g \in 1 .. Len(given) :
                              /\ given[g].type = "get"
                              /\ given[g].names = << call.propName >>
                              /\ \A q \in Positions("wrote") :
                                    log[q].propName # call.propName } }
    IN  /\ ( /\ call.op \in { "defineProp", "defineDerivedProp" }
             /\ result \in { "running", "ok" } ) =>
              /\ ~Has(pre.props, call.propName)
              /\ Has(props, call.propName)
              /\ Cardinality(initial) <= 1
              /\ \A q \in initial :
                    log[q] = Changed(Event(call.propName, InitialValue, Undefined), 1)
              /\ ~DidChange(Prop(props, call.propName).didChange, InitialValue, Undefined)
                    => log = << >>
              /\ (Returned /\ DidChange(Prop(props, call.propName).didChange,
                                         InitialValue, Undefined))
                    => initial # { }
              /\ read \subseteq { InitialValue }
        /\ ( /\ call.op \in { "defineProp", "defineDerivedProp" }
             /\ Threw /\ log = << >> ) =>
              result \in { "AlreadyDefined", "UnknownProperty", "TypeError" }

\* A primary property was defined with an initial value its validator
\* rejects; the handler registered beforehand was called with (name, value,
\* undefined) and read that value from the store.
C21_Witness ==
    /\ call.op = "defineProp"
    /\ Returned
    /\ ValidatorRejects(Prop(props, call.propName).valueValidator, call.value)
    /\ \E q \in Positions("changed") : log[q].depth = 1
    /\ \E g \in 1 .. Len(given) :
          /\ given[g] = Gave("event", "model", << call.propName >>,
                              << call.value, Undefined >>)
          /\ g < Len(given)
          /\ given[g + 1] = Gave("get", "model", << call.propName >>, << call.value >>)

-----------------------------------------------------------------------------
(* C22 *)

\* What calculateValue of the derived property being defined gives on the
\* dependencies as they were at the call, in the order of dependsOn.
CalculatedAtDefinition ==
    LET h == CHOOSE h \in Handlers : h.kind = "derived" /\ h.propName = call.propName
    IN  Calc(h.calc, ValuesOf(pre.props, h.dependsOn))

\* C22: a derived property defined with an initial value has that value,
\* also when the value is falsy (0); it has calculateValue of its
\* dependencies' values, in the order of dependsOn, only when no initial
\* value is passed.  Both until a dependency's change recomputes it, and the
\* initial change event carries the same value.
C22_DerivedInitialValue ==
    (call.op = "defineDerivedProp" /\ result \in { "running", "ok" }) =>
        /\ (\A q \in Positions("wrote") : log[q].propName # call.propName) =>
              ValueOf(props, call.propName) =
                  IF call.value # Undefined THEN call.value ELSE CalculatedAtDefinition
        /\ \A q \in Positions("changed") :
              (log[q].propName = call.propName /\ log[q].oldValue = Undefined) =>
                  log[q].newValue =
                      IF call.value # Undefined THEN call.value ELSE CalculatedAtDefinition

\* A derived property was defined with the initial value 0 where
\* calculateValue gives something else; it holds 0.
C22_Witness ==
    /\ call.op = "defineDerivedProp"
    /\ Returned
    /\ call.value = 0
    /\ CalculatedAtDefinition # 0
    /\ ValueOf(props, call.propName) = 0

-----------------------------------------------------------------------------
(* C23 *)

\* The propertyAccess object names a property that is not defined, gives an
\* access type that is not known, asks an accessor for a property the API
\* may not read, or asks 'readwrite' for one it may not write.
Offends(api, propertyAccess) ==
    \E i \in 1 .. Len(propertyAccess) :
        LET propName == propertyAccess[i][1]
            access == toLowerCase(propertyAccess[i][2])
        IN  \/ ~Has(props, propName)
            \/ access \notin { "readonly", "readwrite", "none" }
            \/ access \in { "readonly", "readwrite" } /\ ReadRejects(api, propName)
            \/ access = "readwrite" /\ WriteRejects(api, props, propName)

\* C23: installAccessors throws exactly when its propertyAccess names an
\* undefined property, gives an unknown access type, asks an accessor for a
\* property the API may not read or 'readwrite' for one it may not write;
\* when it throws, the target has the methods it had before, also none for
\* the valid entries listed before the offending one.
C23_InstallFailsWithoutAccessors ==
    [][ \A api \in Apis :
          ( /\ Idle /\ call'.op = "installAccessors"
            /\ installAccessors(api, call'.args) ) =>
              /\ Offends(api, call'.args) <=>
                    result' \in { "NonExistent", "UnknownAccess", "AccessDenied" }
              /\ Offends(api, call'.args) =>
                    accessors' = accessors /\ props' = props /\ stack' = << >>
              /\ ~Offends(api, call'.args) => result' \in { "running", "ok" } ]_vars

\* installAccessors threw for an unknown access type in its second entry;
\* the first entry asks a getter for a defined property every API may read,
\* and the target has no method for it.
C23_Witness ==
    /\ call.op = "installAccessors"
    /\ result = "UnknownAccess"
    /\ Len(call.args) = 2
    /\ Has(props, call.args[1][1])
    /\ propNameIsPublic(call.args[1][1])
    /\ toLowerCase(call.args[1][2]) = "readonly"
    /\ toLowerCase(call.args[2][2]) \notin { "readonly", "readwrite", "none" }
    /\ \A f \in accessors : f.propName # call.args[1][1]

-----------------------------------------------------------------------------
(* C24 *)

\* The assignment at position p of the log counts as a change by the
\* property's didChange, against the value it replaced.
CountsAsChange(p) ==
    DidChange(Prop(props, log[p].propName).didChange, log[p].newValue, ValueBefore(p))

\* C24: a single-property set that passes its checks stores the value
\* whatever didChange says and changes no other value in that step; in a
\* call that begins with set(name, value), every assignment (the call's own
\* and the ones its listeners make through set) is followed at once by the
\* change event (name, newValue, oldValue), oldValue being the value the
\* assignment replaced, if didChange(newValue, oldValue), and by no event of
\* its own otherwise.
C24_SetStoresAndFiresIfChanged ==
    /\ [][ ( /\ Idle /\ call'.op = "set"
              /\ result' \in { "running", "ok" } ) =>
                /\ ValueOf(props', call'.propName) = call'.value
                /\ \A i \in 1 .. Len(props) :
                      props[i].propName # call'.propName => props'[i] = props[i]
                /\ log' = << Wrote(call'.propName, call'.value, 0) >> ]_vars
    /\ [](call.op = "set" =>
            \A p \in Positions("wrote") :
                /\ (CountsAsChange(p) /\ p < Len(log)) =>
                      log[p + 1] = Changed(Event(log[p].propName, log[p].newValue,
                                                 ValueBefore(p)), log[p].depth + 1)
                /\ (CountsAsChange(p) /\ Returned) => p < Len(log)
                /\ (~CountsAsChange(p) /\ p < Len(log)) =>
                      ~(log[p + 1].type = "changed" /\ log[p + 1].depth > log[p].depth))

\* set(name, value) with a value that differs from the stored one has
\* returned: the value is stored and the log of the call begins with the
\* assignment and its change event.
C24_Witness ==
    /\ call.op = "set" /\ Returned
    /\ call.value # ValueOf(pre.props, call.propName)
    /\ Len(log) >= 2
    /\ log[1] = Wrote(call.propName, call.value, 0)
    /\ log[2] = Changed(Event(call.propName, call.value,
                              ValueOf(pre.props, call.propName)), 1)
    /\ \E p \in Positions("wrote") : p > 1 /\ ~CountsAsChange(p)

-----------------------------------------------------------------------------
(* C25 *)

\* The view-to-base listeners that are on the call stack.
WritingBack == { i \in 1 .. Len(stack) : stack[i].op = "reduce" }

\* C25: every outermost set call, of one property or of several, comes to
\* its end, in a store of primary and derived properties and views, two
\* views of one base and a view of a view among them, with a subscriber that
\* sets a property when a chain completes: no view's write-back is entered
\* while it is already on the call stack, and the call that is running
\* eventually has returned or thrown.
C25_SetTerminates ==
    /\ [](\A i, k \in WritingBack : stack[i].view = stack[k].view => i = k)
    /\ ((IsSet /\ result = "running") ~> (result # "running"))

\* A set of the lower view of two stacked views has returned after the upper
\* view's write-back wrote the lower view again, and the lower view's
\* write-back so wrote the base twice.
C25_Witness ==
    /\ program = "stacked"
    /\ chainListeners = << >>
    /\ call.op = "set" /\ call.propName = "v" /\ Returned
    /\ WritesTo("w") # { }
    /\ Cardinality(WritesTo("v")) >= 2
    /\ Cardinality(WritesTo("b")) >= 2

-----------------------------------------------------------------------------
(* C26 *)

\* calculateViewValue(reduceBaseValue(v, b)) is v for every v and b.
Lawful(h) ==
    \A viewValue, baseValue \in Values :
        Calc(h.calc, << Reduce(h.reduce, viewValue, baseValue, props) >>) = viewValue

\* C26 as stated: where reduceBaseValue always gives a base whose view value
\* is the view value it was given, after every completed outermost set (of
\* the view, of the base, or of both in either order) the view's value is
\* calculateViewValue of the base's value.
C26_LawfulViewInSync ==
    \A h \in Handlers :
        (h.kind = "reduce" /\ Consults(h.reduce) = << >> /\ Lawful(h) /\ IsSet /\ Returned)
            => Computed(h)

-----------------------------------------------------------------------------
(* C27 *)

\* C27 as stated: whenever a change event (name, newValue, oldValue) is
\* delivered to a subscriber (emit is about to call a listener of it), the
\* property holds newValue at that moment, also when an earlier subscriber
\* of the event, or the handling of an earlier event of the same bulk set,
\* has written the property again.
C27_DeliveredValueIsStored ==
    ( /\ Running /\ Top.op = "fire" /\ Top.pc = "listeners"
      /\ Top.j <= Len(listeners[CurrentEvent.propName]) ) =>
        ValueOf(props, CurrentEvent.propName) = CurrentEvent.newValue

-----------------------------------------------------------------------------
(* C28 *)

\* C28 as stated: a view's triggered flag is set only while the view's own
\* write-back to the base is on the call stack; whenever no call is in
\* progress it is clear, also after a set whose write-back failed.
C28_FlagOnlyWhileWritingBack ==
    \A n \in AllNames :
        triggered[n] => \E i \in WritingBack : stack[i].view = n

-----------------------------------------------------------------------------
(* C29 *)

\* The change event at position q of the log is followed by a settle
\* notification whose list has the property's name.
SettleFollows(q) ==
    \E p \in Positions("completed") : p > q /\ log[q].propName \in Range(log[p].names)

\* The change event at position q of the log was delivered while a settle
\* notification with a list that is not empty was being handled.
UnderSettle(q) ==
    \E p \in Positions("completed") : p < q /\ log[p].names # << >>

\* C29 as stated: every change event delivered is followed by a settle
\* notification whose list has the property's name, also the change events
\* of a set that a subscriber of the settle notification makes.
C29_SettleFollowsEveryChange ==
    Returned => \A q \in Positions("changed") : SettleFollows(q)

\* C29 amended: in a call that returns, a change event is followed by a
\* settle notification whose list has the property's name exactly if the
\* settle batch was empty as the call began and the event was not delivered
\* under a settle notification with names: the change events of a set that a
\* settle subscriber makes are followed by one only if the notification the
\* subscriber was handling listed nothing.
C29_SettleFollowsChangesBeforeIt ==
    Returned =>
        \A q \in Positions("changed") :
            SettleFollows(q) <=> (pre.firedProps = << >> /\ ~UnderSettle(q))

\* A call has returned in which the settle subscriber's set changed a
\* property: the change events before the settle notification are listed in
\* it, the subscriber's are followed by none.
C29_Witness ==
    /\ Returned
    /\ \E q \in Positions("changed") : SettleFollows(q)
    /\ \E q \in Positions("changed") : UnderSettle(q) /\ ~SettleFollows(q)

-----------------------------------------------------------------------------
(* C30 *)

\* The step set({name: value}) takes from the current state gives the
\* values, the result and the log that are primed.
BulkFormStores(api, propName, value) ==
    LET args == << << propName, value >> >>
        error == BulkError(api, props, args)
    IN  IF error # "none"
        THEN result' = error /\ props' = props /\ log' = << >>
        ELSE props' = BulkAssign(props, args) /\ log' = BulkWrote(args)

\* The step set(name, value) takes from the current state gives the values,
\* the result and the log that are primed.
SingleFormStores(api, propName, value) ==
    LET error == SetError(api, props, propName, value)
    IN  IF error # "none"
        THEN result' = error /\ props' = props /\ log' = << >>
        ELSE props' = Assign(props, propName, value)
             /\ log' = << Wrote(propName, value, 0) >>

\* C30 as stated: from every state set(name, value) and set({name: value})
\* take the same step: the same error or the same values stored, and the
\* same call of _firePropChangeEvents pending, so that the same change and
\* settle notifications follow, also when didChange reports no change.
C30_SingleAsBulk ==
    [][ \A api \in Apis :
          /\ ( /\ Idle /\ call'.op = "set" /\ call'.via = ""
               /\ Set(api, call'.propName, call'.value) ) =>
                 /\ BulkFormStores(api, call'.propName, call'.value)
                 /\ result' \in { "running", "ok" } =>
                       stack' = EnterFire(<< >>, BulkEvents(props,
                                    << << call'.propName, call'.value >> >>))
          /\ ( /\ Idle /\ call'.op = "setAll" /\ Len(call'.args) = 1
               /\ SetAll(api, call'.args) ) =>
                 /\ SingleFormStores(api, call'.args[1][1], call'.args[1][2])
                 /\ result' \in { "running", "ok" } =>
                       stack' = IF SetEvents(props, call'.args[1][1], call'.args[1][2]) = << >>
                                THEN << >>
                                ELSE EnterFire(<< >>, SetEvents(props, call'.args[1][1],
                                                               call'.args[1][2])) ]_vars

\* C30 amended: from every state set(name, value) and set({name: value})
\* fail with the same error or store the same values; if didChange reports a
\* change the same _firePropChangeEvents call is pending after either; if it
\* reports none, the single form has returned and the bulk form has called
\* _firePropChangeEvents with no event, which emits the settle notification
\* with an empty list unless a settle batch is in progress.
C30_SingleAsBulkIfChanged ==
    [][ \A api \in Apis :
          /\ ( /\ Idle /\ call'.op = "set" /\ call'.via = ""
               /\ Set(api, call'.propName, call'.value) ) =>
                 /\ BulkFormStores(api, call'.propName, call'.value)
                 /\ result' \in { "running", "ok" } =>
                       stack' = IF SetEvents(props, call'.propName, call'.value) = << >>
                                THEN << >>
                                ELSE EnterFire(<< >>, BulkEvents(props,
                                         << << call'.propName, call'.value >> >>))
          /\ ( /\ Idle /\ call'.op = "setAll" /\ Len(call'.args) = 1
               /\ SetAll(api, call'.args) ) =>
                 /\ SingleFormStores(api, call'.args[1][1], call'.args[1][2])
                 /\ result' \in { "running", "ok" } =>
                       stack' = IF SetEvents(props, call'.args[1][1], call'.args[1][2]) = << >>
                                THEN IF firedProps = << >>
                                     THEN << FireFrame(<< >>, TRUE) >> ELSE << >>
                                ELSE EnterFire(<< >>, SetEvents(props, call'.args[1][1],
                                                               call'.args[1][2])) ]_vars

\* set({name: value}) with the value the property holds has returned after
\* the settle notification with an empty list; the subscriber of it has set
\* a property to a new value.
C30_Witness ==
    /\ call.op = "setAll" /\ Returned
    /\ Len(call.args) = 1
    /\ call.args[1][2] = ValueOf(pre.props, call.args[1][1])
    /\ Len(log) > 3
    /\ log[2] = Completed(<< >>, 1)
    /\ log[3].type = "wrote"
    /\ log[4].type = "changed"

-----------------------------------------------------------------------------
(* C31 *)

\* The stores that differ from ps only in which internal properties are
\* defined and in the values of those: the store the same define calls
\* build without the internal ones, and ps with another value in an
\* internal property.  A store where a property was derived from an
\* internal one has no such twin: the derived value would differ too.
Twins(ps) ==
    IF \E def \in Catalog(program) :
          /\ Has(ps, def.propName)
          /\ \E i \in 1 .. Len(def.dependsOn) : Internal(def.dependsOn[i])
    THEN { ps }
    ELSE { SelectSeq(ps, LAMBDA prop : propNameIsPublic(prop.propName)) }
         \cup { Assign(ps, ps[i].propName, value) :
                  i \in { k \in 1 .. Len(ps) : Internal(ps[k].propName) },
                  value \in Inputs(program) }

====
